---- MODULE Spec2Model ----
(***************************************************************************)
(* Model of the conversion core of frame-converter:                        *)
(*   BatchConversionManager / ConversionWorker (converter/conversion_worker.py) *)
(*   FFmpegWrapper.convert_video            (converter/ffmpeg_wrapper.py)  *)
(* Threads: the host (UI) thread that calls cancel(), the batch thread, one *)
(* worker thread per job, and the encoder subprocess of each job.          *)
(***************************************************************************)
EXTENDS Integers, Sequences, FiniteSets, TLC

\* ---------------------------------------------------------------- bounds
MaxFiles == 2        \* longest file_list explored
MaxLines == 2        \* most stdout lines the encoders write, all jobs together
PipeCap == 1         \* lines a pipe holds before the encoder blocks in write
MaxErrLines == 1     \* most stderr lines naming an error that one encoder writes
ParseLen == 3        \* longest complete stream handed to the line parser
MaxStderr == 3       \* most stderr lines one encoder writes (stderr pipe modelled)

Jobs == 0 .. (MaxFiles - 1)

\* Python's None for total_duration / current_worker
None == 0 - 1

\* ------------------------------------------------------- encoder alphabet
\* A stdout line: key = text before '=', eq = the line has '=', ok = the
\* value parses as the number the key needs, val = that number
\* (out_time_ms in microseconds; speed and bitrate: the float, in thousandths).
Line(k, e, o, v) == [key |-> k, eq |-> e, ok |-> o, val |-> v]

Undecodable == Line("<undecodable>", FALSE, FALSE, 0)

OutTimeLines == { Line("out_time_ms", TRUE, TRUE, v) : v \in {5000000, 20000000} }

BatchLines == { Line("out_time_ms", TRUE, TRUE, 5000000) }

AllLines == OutTimeLines \cup
            { Line("out_time_ms", TRUE, FALSE, 0),
              Line("speed", TRUE, TRUE, 1500),
              Line("speed", TRUE, FALSE, 0),
              Line("bitrate", TRUE, TRUE, 4000),
              Line("bitrate", TRUE, FALSE, 0),
              Line("frame", TRUE, TRUE, 10),
              Line("", FALSE, FALSE, 0),
              Line("garbage", FALSE, FALSE, 0),
              Undecodable }

\* The text after '=' of a line: a number written as an integer ("int", num
\* is the integer) or with a decimal point ("float", num is the number in
\* thousandths), or no number at all ("na", as in "N/A"), followed by suf.
Text(f, n, s) == [form |-> f, num |-> n, suf |-> s]

\* as ParseInt, but taking a number with a decimal point too
ParseInt_Lenient(t) == [ok |-> t.form \in {"int", "float"} /\ t.suf = "", val |-> t.num]

\* int(value), line 159: succeeds on an integer literal and nothing else
ParseInt(t) == [ok |-> t.form = "int" /\ t.suf = "", val |-> t.num]

\* float(text), lines 182 and 193: succeeds on a number and nothing else;
\* val is the float in thousandths
ParseFloat(t) ==
    [ok |-> t.form \in {"int", "float"} /\ t.suf = "",
     val |-> IF t.form = "int" THEN t.num * 1000 ELSE t.num]

\* as ParseSpeed, without value.rstrip('x')
ParseSpeed_NoStrip(t) == ParseFloat(t)

\* lines 181-182: value.rstrip('x'), then float
ParseSpeed(t) ==
    ParseFloat([t EXCEPT !.suf = IF @ \in {"x", "xx"} THEN "" ELSE @])

\* lines 192-193: value.replace('kbits/s', '').strip(), then float
ParseBitrate(t) ==
    ParseFloat([t EXCEPT !.suf = IF @ = "kbits/s" THEN "" ELSE @])

\* the line "k=<t>" as the loop body will see it: ok and val are what the
\* conversion for key k makes of t
RawLine(k, t) ==
    LET r == CASE k = "out_time_ms" -> ParseInt(t)
               [] k = "speed"       -> ParseSpeed(t)
               [] k = "bitrate"     -> ParseBitrate(t)
               [] OTHER             -> [ok |-> FALSE, val |-> 0]
    IN  [key |-> k, eq |-> TRUE, ok |-> r.ok, val |-> r.val, txt |-> t]

OutTimeValues == {0, 5000000, 20000000}

ParseLines ==
    { RawLine("out_time_ms", Text("int", v, "")) : v \in OutTimeValues } \cup
    { RawLine("out_time_ms", Text("na", 0, "")),
      RawLine("out_time_ms", Text("float", 1500, "")),
      RawLine("speed", Text("float", 1500, "x")),
      RawLine("speed", Text("na", 0, "")),
      RawLine("bitrate", Text("float", 4000500, "kbits/s")),
      RawLine("bitrate", Text("na", 0, "")),
      RawLine("frame", Text("int", 10, "")),
      Line("", FALSE, FALSE, 0),
      Line("garbage", FALSE, FALSE, 0) }

\* What ffprobe gave: "fail" = get_video_info returned None, "nodur" = no
\* duration field, "bad" = duration text that float() rejects, "ok" = "10.0".
BatchProbes == {"fail", "ok"}
AllProbes == {"fail", "nodur", "bad", "ok"}
KnownDurations == {10}

BatchExitCodes == {0, 1}
AllExitCodes == {0, 1, 2}
\* Popen.returncode of a process ended by a signal is minus the signal number
SigTermCode == 0 - 15
SigKillCode == 0 - 9

VARIABLES
    total,            \* len(self.file_list)
    bpc,              \* position of BatchConversionManager.run
    index,            \* loop variable of run
    b_is_cancelled,   \* BatchConversionManager._is_cancelled
    current_worker,   \* BatchConversionManager.current_worker (job or None)
    success,          \* closure variable of run
    error_message,    \* closure variable of run
    bqueue,           \* queued signal deliveries to the batch thread
    events,           \* signals the batch has emitted to the host, in order
    wpc,              \* position of each ConversionWorker.run
    wrun,             \* QThread.isRunning() of each worker
    w_is_cancelled,   \* ConversionWorker._is_cancelled
    wsignals,         \* signals each worker has emitted, in order
    total_duration,   \* local of convert_video
    curline,          \* the stdout line convert_video is processing
    cvret,            \* value convert_video returned: "none", "True", "False"
    cvsite,           \* source line of the return statement taken (0: none)
    progSink,         \* calls of progress_callback, in order
    errSink,          \* calls of error_callback, in order
    proc,             \* encoder subprocess: "none", "running", "exited"
    launches,         \* Popen calls that created a subprocess, per job
    stdoutOpen,       \* encoder still holds its stdout open
    stdoutBuf,        \* lines written and not yet read
    written,          \* stdout lines written so far, all encoders together
    rc,               \* Popen.returncode (None until the subprocess has exited)
    termSent,         \* process.terminate() was called on a live process
    killSent,         \* process.kill() was called
    upc,              \* position of the host inside cancel()
    request,          \* where run() was when cancel() first set the flag
    stderrBuf,        \* stderr lines written and not yet read
    errPending,       \* the stderr line the encoder is blocked writing, or "none"
    errWritten,       \* stderr lines each encoder has handed to write()
    reader,           \* read_stderr thread: "none", "running", "dead", "done"
    opc,              \* position of a call of one of the helper functions
    oin,              \* what that call was given
    oloc,             \* its locals
    oret              \* what it has returned

bvars == <<total, bpc, index, b_is_cancelled, current_worker, success,
           error_message, bqueue, events>>
wvars == <<wpc, wrun, w_is_cancelled, wsignals, total_duration, curline,
           cvret, cvsite, progSink, errSink>>
svars == <<stderrBuf, errPending, errWritten, reader>>
pvars == <<proc, launches, stdoutOpen, stdoutBuf, written, rc, termSent, killSent,
           svars>>
uvars == <<upc, request>>
ovars == <<opc, oin, oloc, oret>>
vars == <<bvars, wvars, pvars, uvars, ovars>>

NoData == [none |-> TRUE]
NoLine == Line("<none>", FALSE, FALSE, 0)
NoRequest == [bpc |-> "none", index |-> None]

Ev(e, i) == [e |-> e, i |-> i, d |-> NoData]
EvD(e, i, d) == [e |-> e, i |-> i, d |-> d]
Msg(s, j, d) == [sig |-> s, job |-> j, d |-> d]

Min(a, b) == IF a <= b THEN a ELSE b

\* ------------------------------------------------------------ pure parts
\* Exact rationals <<numerator, denominator>> stand for Python floats.
Rat(n, d) == <<n, d>>
RatLeq(a, b) == a[1] * b[2] <= b[1] * a[2]
RatMin(a, b) == IF RatLeq(a, b) THEN a ELSE b

\* FFmpegWrapper._format_time
_format_time(seconds) ==
    <<seconds \div 3600, (seconds % 3600) \div 60, seconds % 60>>

\* total_duration after lines 92-101
DurationOf(p) ==
    CASE p = "fail"  -> None
      [] p = "nodur" -> 0
      [] p = "bad"   -> None
      [] p = "ok"    -> CHOOSE d \in KnownDurations : TRUE

DurationKnown(d) == d # None /\ d > 0

\* as OutTimeData, without the min(..., 100.0) of line 169
OutTimeData_NoClamp(v, d) ==
    IF DurationKnown(d)
    THEN [time |-> Rat(v, 1000000),
          time_formatted |-> _format_time(v \div 1000000),
          progress |-> Rat(v * 100, d * 1000000)]
    ELSE [time |-> Rat(v, 1000000),
          time_formatted |-> _format_time(v \div 1000000)]

\* progress_data of the out_time_ms branch (lines 159-169)
OutTimeData(v, d) ==
    IF DurationKnown(d)
    THEN [time |-> Rat(v, 1000000),
          time_formatted |-> _format_time(v \div 1000000),
          progress |-> RatMin(Rat(v * 100, d * 1000000), Rat(100, 1))]
    ELSE [time |-> Rat(v, 1000000),
          time_formatted |-> _format_time(v \div 1000000)]

\* What the body of the stdout loop (lines 146-199) does with one line:
\*   act = "call"  : progress_callback(data)
\*   act = "skip"  : nothing
\*   act = "raise" : an exception leaves the loop (name in exc)
Result(a, d, x) == [act |-> a, data |-> d, exc |-> x]

\* as ProcessLine, but passing a line with any other key on to the sink
ProcessLine_AnyKey(l, d, pb) ==
    IF l.key = "" THEN Result("skip", NoData, "")
    ELSE IF ~l.eq THEN Result("skip", NoData, "")
    ELSE IF l.key = "out_time_ms" THEN
        IF ~l.ok THEN Result("skip", NoData, "")
        \* line 168 binds progress_percent, line 172 formats it
        ELSE IF DurationKnown(d) \/ pb THEN Result("call", OutTimeData(l.val, d), "")
        ELSE Result("raise", NoData, "UnboundLocalError")
    ELSE IF l.key = "speed" THEN
        IF l.ok THEN Result("call", [speed |-> Rat(l.val, 1000)], "")
        ELSE Result("skip", NoData, "")
    ELSE IF l.key = "bitrate" THEN
        IF l.ok THEN Result("call", [bitrate_mbps |-> Rat(l.val, 1000 * 1000)], "")
        ELSE Result("skip", NoData, "")
    ELSE Result("call", [other |-> l.key], "")

\* as ProcessLine, with line 172 ahead of line 168: the percentage that is
\* formatted is the one an earlier iteration left behind
ProcessLine_FormatFirst(l, d, pb) ==
    IF l.key = "" THEN Result("skip", NoData, "")
    ELSE IF ~l.eq THEN Result("skip", NoData, "")
    ELSE IF l.key = "out_time_ms" THEN
        IF ~l.ok THEN Result("skip", NoData, "")
        \* progress_percent is formatted first and bound afterwards
        ELSE IF pb THEN Result("call", OutTimeData(l.val, d), "")
        ELSE Result("raise", NoData, "UnboundLocalError")
    ELSE IF l.key = "speed" THEN
        IF l.ok THEN Result("call", [speed |-> Rat(l.val, 1000)], "")
        ELSE Result("skip", NoData, "")
    ELSE IF l.key = "bitrate" THEN
        IF l.ok THEN Result("call", [bitrate_mbps |-> Rat(l.val, 1000 * 1000)], "")
        ELSE Result("skip", NoData, "")
    ELSE Result("skip", NoData, "")

\* pb: the local progress_percent is bound when the iteration begins (it is
\* the one local that an iteration may read without having assigned it)
ProcessLine(l, d, pb) ==
    IF l.key = "" THEN Result("skip", NoData, "")
    ELSE IF ~l.eq THEN Result("skip", NoData, "")
    ELSE IF l.key = "out_time_ms" THEN
        IF ~l.ok THEN Result("skip", NoData, "")
        \* line 168 binds progress_percent, line 172 formats it
        ELSE IF DurationKnown(d) \/ pb THEN Result("call", OutTimeData(l.val, d), "")
        ELSE Result("raise", NoData, "UnboundLocalError")
    ELSE IF l.key = "speed" THEN
        IF l.ok THEN Result("call", [speed |-> Rat(l.val, 1000)], "")
        ELSE Result("skip", NoData, "")
    ELSE IF l.key = "bitrate" THEN
        IF l.ok THEN Result("call", [bitrate_mbps |-> Rat(l.val, 1000 * 1000)], "")
        ELSE Result("skip", NoData, "")
    ELSE Result("skip", NoData, "")

\* error_callback arguments
ErrExit(n) == [kind |-> "Conversion failed (code N)", code |-> n]
ErrExc(x) == [kind |-> x, code |-> 0]

\* ------------------------------------------------------------------ Init
\* State after BatchConversionManager(file_list).start(): run() is at the top
\* of its loop and no worker exists yet.
InitCommon ==
    /\ index = 0
    /\ b_is_cancelled = FALSE
    /\ current_worker = None
    /\ success = FALSE
    /\ error_message = ""
    /\ bqueue = << >>
    /\ events = << >>
    /\ w_is_cancelled = [j \in Jobs |-> FALSE]
    /\ wsignals = [j \in Jobs |-> << >>]
    /\ total_duration = [j \in Jobs |-> None]
    /\ curline = [j \in Jobs |-> NoLine]
    /\ cvret = [j \in Jobs |-> "none"]
    /\ cvsite = [j \in Jobs |-> 0]
    /\ progSink = [j \in Jobs |-> << >>]
    /\ errSink = [j \in Jobs |-> << >>]
    /\ proc = [j \in Jobs |-> "none"]
    /\ launches = [j \in Jobs |-> 0]
    /\ stdoutOpen = [j \in Jobs |-> FALSE]
    /\ stdoutBuf = [j \in Jobs |-> << >>]
    /\ written = 0
    /\ rc = [j \in Jobs |-> None]
    /\ termSent = [j \in Jobs |-> FALSE]
    /\ killSent = [j \in Jobs |-> FALSE]
    /\ upc = "idle"
    /\ request = NoRequest
    /\ stderrBuf = [j \in Jobs |-> << >>]
    /\ errPending = [j \in Jobs |-> "none"]
    /\ errWritten = [j \in Jobs |-> 0]
    /\ reader = [j \in Jobs |-> "none"]

\* no helper function is being called
NoCall == [none |-> TRUE]
OthersIdle == opc = "idle" /\ oin = NoCall /\ oloc = NoCall /\ oret = NoCall

Init ==
    /\ InitCommon
    /\ OthersIdle
    /\ total \in 0 .. MaxFiles
    /\ bpc = "loop"
    /\ wpc = [j \in Jobs |-> "new"]
    /\ wrun = [j \in Jobs |-> FALSE]

\* ----------------------------------------------- the encoder subprocess
Alive(j) == proc[j] = "running"

\* the encoder is inside a write() to its stderr pipe, which is full
BlockedOnStderr(j) == Alive(j) /\ errPending[j] # "none"

\* convert_video of job j is inside its try block and holds the pipes
HoldsPipes(j) == wpc[j] \in {"read", "line", "wait3", "reap", "waitexit"}

\* the encoder writes one progress line to its stdout pipe
EncWrite(j, L) ==
    /\ Alive(j) /\ stdoutOpen[j] /\ HoldsPipes(j)
    /\ ~BlockedOnStderr(j)
    /\ written < MaxLines
    /\ Len(stdoutBuf[j]) < PipeCap
    /\ \E l \in L : stdoutBuf' = [stdoutBuf EXCEPT ![j] = Append(@, l)]
    /\ written' = written + 1
    /\ UNCHANGED <<proc, launches, stdoutOpen, rc, termSent, killSent, svars>>
    /\ UNCHANGED <<bvars, wvars, uvars>>
    /\ UNCHANGED ovars

\* the encoder closes stdout (end of the progress stream) and keeps running
EncClose(j) ==
    /\ Alive(j) /\ stdoutOpen[j] /\ HoldsPipes(j)
    /\ ~BlockedOnStderr(j)
    /\ stdoutOpen' = [stdoutOpen EXCEPT ![j] = FALSE]
    /\ UNCHANGED <<proc, launches, stdoutBuf, written, rc, termSent, killSent, svars>>
    /\ UNCHANGED <<bvars, wvars, uvars>>
    /\ UNCHANGED ovars

\* the encoder exits: on its own with some exit code (0 only after a complete
\* stream, never from inside a blocked write), with the signal's code after
\* SIGTERM, and in no other way than by the signal after SIGKILL
EncExit(j, C) ==
    /\ Alive(j)
    /\ \E c \in (C \cup {SigTermCode, SigKillCode}) :
          /\ c = 0 => ~stdoutOpen[j]
          /\ c = SigTermCode => termSent[j]
          /\ c = SigKillCode <=> killSent[j]
          /\ BlockedOnStderr(j) => c \in {SigTermCode, SigKillCode}
          /\ rc' = IF HoldsPipes(j) THEN [rc EXCEPT ![j] = c] ELSE rc
    /\ proc' = [proc EXCEPT ![j] = "exited"]
    /\ stdoutOpen' = [stdoutOpen EXCEPT ![j] = FALSE]
    /\ errPending' = [errPending EXCEPT ![j] = "none"]
    /\ UNCHANGED <<launches, stdoutBuf, written, termSent, killSent>>
    /\ UNCHANGED <<stderrBuf, errWritten, reader>>
    /\ UNCHANGED <<bvars, wvars, uvars>>
    /\ UNCHANGED ovars

\* ------------------------------------------- ConversionWorker (one per job)
\* a signal of worker j reaches the slots the batch connected (lines 179-195)
Connected(j) == current_worker = j

\* as Emit, but the delivery jumps the queue
Emit_Front(j, sig, d) ==
    /\ wsignals' = [wsignals EXCEPT ![j] = Append(@, sig)]
    /\ bqueue' = IF Connected(j) THEN << Msg(sig, j, d) >> \o bqueue ELSE bqueue

Emit(j, sig, d) ==
    /\ wsignals' = [wsignals EXCEPT ![j] = Append(@, sig)]
    /\ bqueue' = IF Connected(j) THEN Append(bqueue, Msg(sig, j, d)) ELSE bqueue

\* as Return, but a failed conversion is started again
Return_Retry(j, v, site) ==
    /\ cvret' = [cvret EXCEPT ![j] = v]
    /\ cvsite' = [cvsite EXCEPT ![j] = site]
    /\ wpc' = [wpc EXCEPT ![j] = IF v = "False" THEN "launch" ELSE "after"]

\* convert_video returns v from the return statement at source line site
Return(j, v, site) ==
    /\ cvret' = [cvret EXCEPT ![j] = v]
    /\ cvsite' = [cvsite EXCEPT ![j] = site]
    /\ wpc' = [wpc EXCEPT ![j] = "after"]

\* as CvLaunch, with no handler around Popen: the exception leaves
\* convert_video
CvLaunch_Uncaught(j, P) ==
    /\ wrun[j] /\ wpc[j] = "launch"
    /\ wsignals' = [wsignals EXCEPT ![j] = Append(@, "conversion_started")]
    /\ \E p \in P : total_duration' = [total_duration EXCEPT ![j] = DurationOf(p)]
    /\ \/ /\ proc' = [proc EXCEPT ![j] = "running"]
          /\ launches' = [launches EXCEPT ![j] = @ + 1]
          /\ stdoutOpen' = [stdoutOpen EXCEPT ![j] = TRUE]
          /\ reader' = [reader EXCEPT ![j] = "running"]
          /\ wpc' = [wpc EXCEPT ![j] = "read"]
          /\ UNCHANGED <<cvret, cvsite, errSink>>
       \/ \* Popen raises (binary missing): lines 223-227
          /\ Return(j, "raised", 0)
          /\ UNCHANGED errSink
          /\ UNCHANGED <<proc, launches, stdoutOpen, reader>>
    /\ UNCHANGED <<wrun, w_is_cancelled, curline, progSink>>
    /\ UNCHANGED <<stdoutBuf, written, rc, termSent, killSent>>
    /\ UNCHANGED <<stderrBuf, errPending, errWritten>>
    /\ UNCHANGED <<bvars, uvars>>
    /\ UNCHANGED ovars

\* run() lines 52-53 (conversion_started goes to a slot that does nothing,
\* line 179), then convert_video lines 92-127: probe, build the command, Popen
CvLaunch(j, P) ==
    /\ wrun[j] /\ wpc[j] = "launch"
    /\ wsignals' = [wsignals EXCEPT ![j] = Append(@, "conversion_started")]
    /\ \E p \in P : total_duration' = [total_duration EXCEPT ![j] = DurationOf(p)]
    /\ \/ /\ proc' = [proc EXCEPT ![j] = "running"]
          /\ launches' = [launches EXCEPT ![j] = @ + 1]
          /\ stdoutOpen' = [stdoutOpen EXCEPT ![j] = TRUE]
          /\ reader' = [reader EXCEPT ![j] = "running"]
          /\ wpc' = [wpc EXCEPT ![j] = "read"]
          /\ UNCHANGED <<cvret, cvsite, errSink>>
       \/ \* Popen raises (binary missing): lines 223-227
          /\ errSink' = [errSink EXCEPT ![j] = Append(@, ErrExc("FileNotFoundError"))]
          /\ Return(j, "False", 227)
          /\ UNCHANGED <<proc, launches, stdoutOpen, reader>>
    /\ UNCHANGED <<wrun, w_is_cancelled, curline, progSink>>
    /\ UNCHANGED <<stdoutBuf, written, rc, termSent, killSent>>
    /\ UNCHANGED <<stderrBuf, errPending, errWritten>>
    /\ UNCHANGED <<bvars, uvars>>
    /\ UNCHANGED ovars

\* lines 118-127: the stderr reader thread hands a line that contains 'error'
\* or 'failed' to error_callback
ErrLine == [kind |-> "stderr line", code |-> 0]
ErrLines(j) == Cardinality({k \in 1 .. Len(errSink[j]) : errSink[j][k] = ErrLine})

\* What the encoder writes to stderr, by what read_stderr does with it: a line
\* that names an error, any other line, bytes that are no text in the locale's
\* encoding (Popen(universal_newlines=True) decodes strictly).
StderrKinds == {"error", "plain", "undecodable"}
StderrRange(j) == { stderrBuf[j][k] : k \in 1 .. Len(stderrBuf[j]) }

\* the encoder writes one line to its stderr pipe, or blocks in the write when
\* the pipe is full
EncWriteErr(j, K) ==
    /\ Alive(j) /\ HoldsPipes(j)
    /\ ~BlockedOnStderr(j)
    /\ errWritten[j] < MaxStderr
    /\ errWritten' = [errWritten EXCEPT ![j] = @ + 1]
    /\ \E k \in K :
          IF Len(stderrBuf[j]) < PipeCap
          THEN /\ stderrBuf' = [stderrBuf EXCEPT ![j] = Append(@, k)]
               /\ UNCHANGED errPending
          ELSE /\ errPending' = [errPending EXCEPT ![j] = k]
               /\ UNCHANGED stderrBuf
    /\ UNCHANGED <<proc, launches, stdoutOpen, stdoutBuf, written, rc, termSent,
                   killSent, reader>>
    /\ UNCHANGED <<bvars, wvars, uvars>>
    /\ UNCHANGED ovars

\* the blocked write goes through once the pipe has room
EncUnblockErr(j) ==
    /\ BlockedOnStderr(j)
    /\ Len(stderrBuf[j]) < PipeCap
    /\ stderrBuf' = [stderrBuf EXCEPT ![j] = Append(@, errPending[j])]
    /\ errPending' = [errPending EXCEPT ![j] = "none"]
    /\ UNCHANGED <<proc, launches, stdoutOpen, stdoutBuf, written, rc, termSent,
                   killSent, errWritten, reader>>
    /\ UNCHANGED <<bvars, wvars, uvars>>
    /\ UNCHANGED ovars

\* lines 118-124, one iteration of `for line in process.stderr`: the thread
\* takes the next line out of the pipe and hands it to error_callback when it
\* names an error; the iterator raises UnicodeDecodeError on bytes it cannot
\* decode, which nothing in the thread catches, and ends at end of file.
read_stderr(j) ==
    /\ reader[j] = "running"
    /\ IF stderrBuf[j] # << >>
       THEN /\ stderrBuf' = [stderrBuf EXCEPT ![j] = Tail(@)]
            /\ reader' = IF Head(stderrBuf[j]) = "undecodable"
                         THEN [reader EXCEPT ![j] = "dead"]
                         ELSE reader
            /\ errSink' = IF Head(stderrBuf[j]) = "error"
                          THEN [errSink EXCEPT ![j] = Append(@, ErrLine)]
                          ELSE errSink
       ELSE /\ ~Alive(j)
            /\ reader' = [reader EXCEPT ![j] = "done"]
            /\ UNCHANGED <<stderrBuf, errSink>>
    /\ UNCHANGED <<wpc, wrun, w_is_cancelled, wsignals, total_duration, curline,
                   cvret, cvsite, progSink>>
    /\ UNCHANGED <<proc, launches, stdoutOpen, stdoutBuf, written, rc, termSent,
                   killSent, errPending, errWritten>>
    /\ UNCHANGED <<bvars, uvars>>
    /\ UNCHANGED ovars

\* read_stderr as error_callback sees it, with the pipe left out: a line that
\* names an error may arrive at any time after the launch
ReadStderr(j) ==
    /\ proc[j] # "none"
    /\ ErrLines(j) < MaxErrLines
    /\ errSink' = [errSink EXCEPT ![j] = Append(@, ErrLine)]
    /\ UNCHANGED <<wpc, wrun, w_is_cancelled, wsignals, total_duration, curline,
                   cvret, cvsite, progSink>>
    /\ UNCHANGED <<bvars, pvars, uvars>>
    /\ UNCHANGED ovars

\* the predicate handed to convert_video: lambda: self._is_cancelled
cancel_check(j) == w_is_cancelled[j]

\* as CvReadLine, without the cancel check of line 135
CvReadLine_NoCancelCheck(j) ==
    /\ wrun[j] /\ wpc[j] = "read"
    /\ stdoutBuf[j] # << >>
    /\ LET l == Head(stdoutBuf[j]) IN
       IF l = Undecodable
       THEN \* the text decoder raises: lines 223-227
            /\ errSink' = [errSink EXCEPT ![j] = Append(@, ErrExc("UnicodeDecodeError"))]
            /\ Return(j, "False", 227)
            /\ stdoutBuf' = [stdoutBuf EXCEPT ![j] = << >>]
            /\ UNCHANGED <<curline, termSent>>
       ELSE IF FALSE
       THEN \* process.terminate(), then process.wait(timeout=3)
            /\ termSent' = [termSent EXCEPT ![j] = Alive(j)]
            /\ wpc' = [wpc EXCEPT ![j] = "wait3"]
            /\ stdoutBuf' = [stdoutBuf EXCEPT ![j] = Tail(@)]
            /\ UNCHANGED <<curline, cvret, cvsite, errSink>>
       ELSE /\ curline' = [curline EXCEPT ![j] = l]
            /\ wpc' = [wpc EXCEPT ![j] = "line"]
            /\ stdoutBuf' = [stdoutBuf EXCEPT ![j] = Tail(@)]
            /\ UNCHANGED <<cvret, cvsite, errSink, termSent>>
    /\ UNCHANGED <<wrun, w_is_cancelled, wsignals, total_duration, progSink>>
    /\ UNCHANGED <<proc, launches, stdoutOpen, written, rc, killSent>>
    /\ UNCHANGED <<bvars, uvars, svars>>
    /\ UNCHANGED ovars

\* lines 133-144: the iterator yields the next line, then the cancel check
CvReadLine(j) ==
    /\ wrun[j] /\ wpc[j] = "read"
    /\ stdoutBuf[j] # << >>
    /\ LET l == Head(stdoutBuf[j]) IN
       IF l = Undecodable
       THEN \* the text decoder raises: lines 223-227
            /\ errSink' = [errSink EXCEPT ![j] = Append(@, ErrExc("UnicodeDecodeError"))]
            /\ Return(j, "False", 227)
            /\ stdoutBuf' = [stdoutBuf EXCEPT ![j] = << >>]
            /\ UNCHANGED <<curline, termSent>>
       ELSE IF cancel_check(j)
       THEN \* process.terminate(), then process.wait(timeout=3)
            /\ termSent' = [termSent EXCEPT ![j] = Alive(j)]
            /\ wpc' = [wpc EXCEPT ![j] = "wait3"]
            /\ stdoutBuf' = [stdoutBuf EXCEPT ![j] = Tail(@)]
            /\ UNCHANGED <<curline, cvret, cvsite, errSink>>
       ELSE /\ curline' = [curline EXCEPT ![j] = l]
            /\ wpc' = [wpc EXCEPT ![j] = "line"]
            /\ stdoutBuf' = [stdoutBuf EXCEPT ![j] = Tail(@)]
            /\ UNCHANGED <<cvret, cvsite, errSink, termSent>>
    /\ UNCHANGED <<wrun, w_is_cancelled, wsignals, total_duration, progSink>>
    /\ UNCHANGED <<proc, launches, stdoutOpen, written, rc, killSent>>
    /\ UNCHANGED <<bvars, uvars, svars>>
    /\ UNCHANGED ovars

\* line 139: the subprocess exited within the 3 seconds; line 144
CvWaitTerminated(j) ==
    /\ wrun[j] /\ wpc[j] = "wait3"
    /\ ~Alive(j)
    /\ Return(j, "False", 144)
    /\ stdoutBuf' = [stdoutBuf EXCEPT ![j] = << >>]
    /\ UNCHANGED <<wrun, w_is_cancelled, wsignals, total_duration, curline,
                   progSink, errSink>>
    /\ UNCHANGED <<proc, launches, stdoutOpen, written, rc, termSent, killSent>>
    /\ UNCHANGED <<bvars, uvars, svars>>
    /\ UNCHANGED ovars

\* lines 140-142: TimeoutExpired after 3 seconds, process.kill(), and on to
\* the process.wait() of line 143
CvWaitTimeout(j) ==
    /\ wrun[j] /\ wpc[j] = "wait3"
    /\ Alive(j)
    /\ killSent' = [killSent EXCEPT ![j] = TRUE]
    /\ wpc' = [wpc EXCEPT ![j] = "reap"]
    /\ UNCHANGED <<wrun, w_is_cancelled, wsignals, total_duration, curline,
                   cvret, cvsite, progSink, errSink>>
    /\ UNCHANGED <<proc, launches, stdoutOpen, stdoutBuf, written, rc, termSent>>
    /\ UNCHANGED <<bvars, uvars, svars>>
    /\ UNCHANGED ovars

\* lines 143-144: process.wait() without a timeout returns once the killed
\* subprocess is gone
CvWaitKilled(j) ==
    /\ wrun[j] /\ wpc[j] = "reap"
    /\ ~Alive(j)
    /\ Return(j, "False", 144)
    /\ stdoutBuf' = [stdoutBuf EXCEPT ![j] = << >>]
    /\ UNCHANGED <<wrun, w_is_cancelled, wsignals, total_duration, curline,
                   progSink, errSink>>
    /\ UNCHANGED <<proc, launches, stdoutOpen, written, rc, termSent, killSent>>
    /\ UNCHANGED <<bvars, uvars, svars>>
    /\ UNCHANGED ovars

\* progress_percent was bound by an earlier iteration: line 168 ran, and with
\* it the progress_callback of line 173 with a 'progress' field
PercentBound(j) ==
    \E k \in 1 .. Len(progSink[j]) : "progress" \in DOMAIN progSink[j][k]

\* lines 146-199: the loop body for the line read; progress_callback is the
\* worker's _on_progress (conversion_worker.py lines 80-89)
CvLine(j) ==
    /\ wrun[j] /\ wpc[j] = "line"
    /\ LET r == ProcessLine(curline[j], total_duration[j], PercentBound(j)) IN
       /\ IF r.act = "call"
          THEN /\ progSink' = [progSink EXCEPT ![j] = Append(@, r.data)]
               /\ IF ~w_is_cancelled[j]
                  THEN Emit(j, "progress_updated", r.data)
                  ELSE UNCHANGED <<wsignals, bqueue>>
          ELSE UNCHANGED <<progSink, wsignals, bqueue>>
       /\ IF r.act = "raise"
          THEN \* lines 223-227
               /\ errSink' = [errSink EXCEPT ![j] = Append(@, ErrExc(r.exc))]
               /\ Return(j, "False", 227)
               /\ stdoutBuf' = [stdoutBuf EXCEPT ![j] = << >>]
          ELSE /\ wpc' = [wpc EXCEPT ![j] = "read"]
               /\ UNCHANGED <<cvret, cvsite, errSink, stdoutBuf>>
    /\ curline' = [curline EXCEPT ![j] = NoLine]
    /\ UNCHANGED <<total, bpc, index, b_is_cancelled, current_worker, success,
                   error_message, events>>
    /\ UNCHANGED <<wrun, w_is_cancelled, total_duration>>
    /\ UNCHANGED <<proc, launches, stdoutOpen, written, rc, termSent, killSent>>
    /\ UNCHANGED <<uvars, svars>>
    /\ UNCHANGED ovars

\* the stdout iterator ends: every line was read and the pipe is closed
CvEndOfStream(j) ==
    /\ wrun[j] /\ wpc[j] = "read"
    /\ stdoutBuf[j] = << >> /\ ~stdoutOpen[j]
    /\ wpc' = [wpc EXCEPT ![j] = "waitexit"]
    /\ UNCHANGED <<wrun, w_is_cancelled, wsignals, total_duration, curline,
                   cvret, cvsite, progSink, errSink>>
    /\ UNCHANGED <<pvars, bvars, uvars>>
    /\ UNCHANGED ovars

\* as CvWaitExit, returning True whatever the exit code
CvWaitExit_IgnoreCode(j) ==
    /\ wrun[j] /\ wpc[j] = "waitexit"
    /\ ~Alive(j)
    /\ IF TRUE
       THEN /\ Return(j, "True", 207)
            /\ UNCHANGED errSink
       ELSE /\ errSink' = [errSink EXCEPT ![j] = Append(@, ErrExit(rc[j]))]
            /\ Return(j, "False", 216)
    /\ UNCHANGED <<wrun, w_is_cancelled, wsignals, total_duration, curline, progSink>>
    /\ UNCHANGED <<pvars, bvars, uvars>>
    /\ UNCHANGED ovars

\* lines 202-216: process.wait(), then the exit code decides. After a failure
\* process.stderr.read() (line 209) takes what the reader thread has left in
\* the pipe, and raises like any other read when that does not decode.
CvWaitExit(j) ==
    /\ wrun[j] /\ wpc[j] = "waitexit"
    /\ ~Alive(j)
    /\ IF rc[j] = 0
       THEN /\ Return(j, "True", 207)
            /\ UNCHANGED <<errSink, stderrBuf>>
       ELSE /\ stderrBuf' = [stderrBuf EXCEPT ![j] = << >>]
            /\ IF "undecodable" \in StderrRange(j)
               THEN /\ errSink' = [errSink EXCEPT ![j] = Append(@, ErrExc("UnicodeDecodeError"))]
                    /\ Return(j, "False", 227)
               ELSE /\ errSink' = [errSink EXCEPT ![j] = Append(@, ErrExit(rc[j]))]
                    /\ Return(j, "False", 216)
    /\ UNCHANGED <<wrun, w_is_cancelled, wsignals, total_duration, curline, progSink>>
    /\ UNCHANGED <<proc, launches, stdoutOpen, stdoutBuf, written, rc, termSent, killSent>>
    /\ UNCHANGED <<errPending, errWritten, reader>>
    /\ UNCHANGED <<bvars, uvars>>
    /\ UNCHANGED ovars

\* as WorkerSignal, looking at convert_video's result before the cancel flag
WorkerSignal_ResultFirst(j) ==
    IF cvret[j] = "True" THEN "conversion_finished"
    ELSE IF w_is_cancelled[j] THEN "conversion_cancelled"
    ELSE "conversion_failed"

\* run(), lines 64-73
WorkerSignal(j) ==
    IF w_is_cancelled[j] THEN "conversion_cancelled"
    ELSE IF cvret[j] = "True" THEN "conversion_finished"
    ELSE "conversion_failed"

\* run(), lines 64-73, and the end of the thread (QThread.finished).
\* conversion_cancelled has no slot in the batch.
WorkerFinish(j) ==
    /\ wrun[j] /\ wpc[j] = "after"
    /\ wsignals' = [wsignals EXCEPT ![j] = Append(@, WorkerSignal(j))]
    /\ bqueue' = IF Connected(j)
                 THEN bqueue \o
                      (IF WorkerSignal(j) = "conversion_cancelled" THEN << >>
                       ELSE << Msg(WorkerSignal(j), j, [error |-> "Conversion failed"]) >>) \o
                      << Msg("finished", j, NoData) >>
                 ELSE bqueue
    /\ wpc' = [wpc EXCEPT ![j] = "done"]
    /\ wrun' = [wrun EXCEPT ![j] = FALSE]
    /\ UNCHANGED <<total, bpc, index, b_is_cancelled, current_worker, success,
                   error_message, events>>
    /\ UNCHANGED <<w_is_cancelled, total_duration, curline, cvret, cvsite,
                   progSink, errSink>>
    /\ UNCHANGED <<pvars, uvars>>
    /\ UNCHANGED ovars

\* ------------------------------------------------ BatchConversionManager
\* as BatchLoop, without the cancellation check at the top of the loop
BatchLoop_NoCheck ==
    /\ bpc = "loop"
    /\ IF index >= total
       THEN /\ events' = Append(events, Ev("all_finished", None))
            /\ bpc' = "done"
       ELSE /\ bpc' = "started"
            /\ UNCHANGED events
    /\ UNCHANGED <<total, index, b_is_cancelled, current_worker, success,
                   error_message, bqueue>>
    /\ UNCHANGED <<wvars, pvars, uvars>>
    /\ UNCHANGED ovars

\* lines 148-152 and 211-212: next iteration, or the loop is exhausted
BatchLoop ==
    /\ bpc = "loop"
    /\ IF index >= total
       THEN /\ events' = Append(events, Ev("all_finished", None))
            /\ bpc' = "done"
       ELSE IF b_is_cancelled
       THEN /\ events' = Append(events, Ev("batch_cancelled", None))
            /\ bpc' = "done"
       ELSE /\ bpc' = "started"
            /\ UNCHANGED events
    /\ UNCHANGED <<total, index, b_is_cancelled, current_worker, success,
                   error_message, bqueue>>
    /\ UNCHANGED <<wvars, pvars, uvars>>
    /\ UNCHANGED ovars

\* line 155
BatchFileStarted ==
    /\ bpc = "started"
    /\ events' = Append(events, Ev("file_started", index))
    /\ bpc' = "create"
    /\ UNCHANGED <<total, index, b_is_cancelled, current_worker, success,
                   error_message, bqueue>>
    /\ UNCHANGED <<wvars, pvars, uvars>>
    /\ UNCHANGED ovars

\* lines 158-195: resolve the output path, create the worker, connect it.
\* get_output_filename creates the output directory and raises OSError when
\* it cannot; run() logs the exception (lines 214-215) and returns.
\* Rebinding current_worker (line 161) drops the last reference to the worker
\* of the previous job: that object and what was recorded about its finished
\* run are gone; an encoder it left running stays.
Released(f, init) ==
    IF current_worker = None THEN f ELSE [f EXCEPT ![current_worker] = init]

\* as BatchCreateWorker, keeping success and error_message of the previous job
BatchCreateWorker_NoReset ==
    /\ bpc = "create"
    /\ \/ /\ current_worker' = index
          /\ UNCHANGED <<success, error_message>>
          /\ bpc' = "start"
          /\ w_is_cancelled' = Released(w_is_cancelled, FALSE)
          /\ wsignals' = Released(wsignals, << >>)
          /\ total_duration' = Released(total_duration, None)
          /\ cvret' = Released(cvret, "none")
          /\ cvsite' = Released(cvsite, 0)
          /\ progSink' = Released(progSink, << >>)
          /\ errSink' = Released(errSink, << >>)
          /\ rc' = Released(rc, None)
          /\ termSent' = Released(termSent, FALSE)
          /\ killSent' = Released(killSent, FALSE)
          /\ proc' = IF current_worker # None /\ proc[current_worker] = "exited"
                     THEN [proc EXCEPT ![current_worker] = "none"] ELSE proc
          /\ launches' = IF current_worker # None /\ proc[current_worker] = "exited"
                         THEN [launches EXCEPT ![current_worker] = 0] ELSE launches
       \/ /\ bpc' = "raised"
          /\ UNCHANGED <<current_worker, success, error_message>>
          /\ UNCHANGED <<w_is_cancelled, wsignals, total_duration, cvret, cvsite,
                         progSink, errSink, rc, termSent, killSent, proc, launches>>
    /\ UNCHANGED <<total, index, b_is_cancelled, bqueue, events>>
    /\ UNCHANGED <<wpc, wrun, curline, stdoutOpen, stdoutBuf, written, uvars, svars>>
    /\ UNCHANGED ovars

\* lines 158-195
BatchCreateWorker ==
    /\ bpc = "create"
    /\ \/ /\ current_worker' = index
          /\ success' = FALSE
          /\ error_message' = ""
          /\ bpc' = "start"
          /\ w_is_cancelled' = Released(w_is_cancelled, FALSE)
          /\ wsignals' = Released(wsignals, << >>)
          /\ total_duration' = Released(total_duration, None)
          /\ cvret' = Released(cvret, "none")
          /\ cvsite' = Released(cvsite, 0)
          /\ progSink' = Released(progSink, << >>)
          /\ errSink' = Released(errSink, << >>)
          /\ rc' = Released(rc, None)
          /\ termSent' = Released(termSent, FALSE)
          /\ killSent' = Released(killSent, FALSE)
          /\ proc' = IF current_worker # None /\ proc[current_worker] = "exited"
                     THEN [proc EXCEPT ![current_worker] = "none"] ELSE proc
          /\ launches' = IF current_worker # None /\ proc[current_worker] = "exited"
                         THEN [launches EXCEPT ![current_worker] = 0] ELSE launches
       \/ /\ bpc' = "raised"
          /\ UNCHANGED <<current_worker, success, error_message>>
          /\ UNCHANGED <<w_is_cancelled, wsignals, total_duration, cvret, cvsite,
                         progSink, errSink, rc, termSent, killSent, proc, launches>>
    /\ UNCHANGED <<total, index, b_is_cancelled, bqueue, events>>
    /\ UNCHANGED <<wpc, wrun, curline, stdoutOpen, stdoutBuf, written, uvars, svars>>
    /\ UNCHANGED ovars

\* as BatchStartWorker, but run() does not wait for the worker (no loop.exec())
BatchStartWorker_NoWait ==
    /\ bpc = "start"
    /\ wrun' = [wrun EXCEPT ![current_worker] = TRUE]
    /\ wpc' = [wpc EXCEPT ![current_worker] = "launch"]
    /\ bpc' = "loop"
    /\ index' = index + 1
    /\ UNCHANGED <<total, b_is_cancelled, current_worker, success,
                   error_message, bqueue, events>>
    /\ UNCHANGED <<w_is_cancelled, wsignals, total_duration, curline, cvret,
                   cvsite, progSink, errSink>>
    /\ UNCHANGED <<pvars, uvars>>
    /\ UNCHANGED ovars

\* lines 194-197: current_worker.start(), then loop.exec() takes over
BatchStartWorker ==
    /\ bpc = "start"
    /\ wrun' = [wrun EXCEPT ![current_worker] = TRUE]
    /\ wpc' = [wpc EXCEPT ![current_worker] = "launch"]
    /\ bpc' = "exec"
    /\ UNCHANGED <<total, index, b_is_cancelled, current_worker, success,
                   error_message, bqueue, events>>
    /\ UNCHANGED <<w_is_cancelled, wsignals, total_duration, curline, cvret,
                   cvsite, progSink, errSink>>
    /\ UNCHANGED <<pvars, uvars>>
    /\ UNCHANGED ovars

\* as LoopExits, but any signal of the worker ends the loop
LoopExits_AnySignal(m) == m.job = index

\* line 197: loop.exec() delivers one queued signal to its slot
LoopExits(m) == m.sig = "finished" /\ m.job = index

BatchDeliver ==
    /\ bpc = "exec"
    /\ bqueue # << >>
    /\ LET m == Head(bqueue) IN
       /\ bqueue' = Tail(bqueue)
       /\ success' = IF m.sig = "conversion_finished" THEN TRUE
                     ELSE IF m.sig = "conversion_failed" THEN FALSE
                     ELSE success
       /\ error_message' = IF m.sig = "conversion_failed" THEN m.d.error
                           ELSE error_message
       /\ events' = IF m.sig = "progress_updated"
                    THEN Append(events, EvD("progress_updated", m.job, m.d))
                    ELSE events
       /\ bpc' = IF LoopExits(m) THEN "postcheck" ELSE "exec"
    /\ UNCHANGED <<total, index, b_is_cancelled, current_worker>>
    /\ UNCHANGED <<wvars, pvars, uvars>>
    /\ UNCHANGED ovars

\* as BatchPostCheck, without the cancellation check after the worker ended
BatchPostCheck_NoCheck ==
    /\ bpc = "postcheck"
    /\ bpc' = "emit"
    /\ UNCHANGED <<total, index, b_is_cancelled, current_worker, success,
                   error_message, bqueue, events>>
    /\ UNCHANGED <<wvars, pvars, uvars>>
    /\ UNCHANGED ovars

\* as BatchPostCheck, going on after batch_cancelled instead of returning
BatchPostCheck_NoReturn ==
    /\ bpc = "postcheck"
    /\ bpc' = "emit"
    /\ events' = IF b_is_cancelled THEN Append(events, Ev("batch_cancelled", None))
                 ELSE events
    /\ UNCHANGED <<total, index, b_is_cancelled, current_worker, success,
                   error_message, bqueue>>
    /\ UNCHANGED <<wvars, pvars, uvars>>
    /\ UNCHANGED ovars

\* lines 201-204
BatchPostCheck ==
    /\ bpc = "postcheck"
    /\ IF b_is_cancelled
       THEN /\ events' = Append(events, Ev("batch_cancelled", None))
            /\ bpc' = "done"
       ELSE /\ bpc' = "emit"
            /\ UNCHANGED events
    /\ UNCHANGED <<total, index, b_is_cancelled, current_worker, success,
                   error_message, bqueue>>
    /\ UNCHANGED <<wvars, pvars, uvars>>
    /\ UNCHANGED ovars

\* lines 206-209, then the next iteration
BatchEmitResult ==
    /\ bpc = "emit"
    /\ events' = Append(events,
                   IF success THEN Ev("file_finished", index)
                   ELSE EvD("file_failed", index, [error |-> error_message]))
    /\ index' = index + 1
    /\ bpc' = "loop"
    /\ UNCHANGED <<total, b_is_cancelled, current_worker, success,
                   error_message, bqueue>>
    /\ UNCHANGED <<wvars, pvars, uvars>>
    /\ UNCHANGED ovars

\* ------------------------------------ the host calling cancel() (217-227)
\* lines 219-220; the host calls cancel() on a manager whose thread is
\* running (main_window.py lines 228 and 388)
BatchRunning == bpc \notin {"none", "done", "raised"}

CancelSetFlag ==
    /\ upc = "idle"
    /\ BatchRunning
    /\ b_is_cancelled' = TRUE
    /\ request' = IF b_is_cancelled THEN request
                  ELSE [bpc |-> bpc, index |-> index]
    /\ upc' = "check"
    /\ UNCHANGED <<total, bpc, index, current_worker, success, error_message,
                   bqueue, events>>
    /\ UNCHANGED <<wvars, pvars>>
    /\ UNCHANGED ovars

\* line 223
CancelCheckWorker ==
    /\ upc = "check"
    /\ upc' = IF current_worker # None /\ wrun[current_worker]
              THEN "cancel" ELSE "idle"
    /\ UNCHANGED request
    /\ UNCHANGED <<bvars, wvars, pvars>>
    /\ UNCHANGED ovars

\* line 224 with ConversionWorker.cancel (lines 100-104)
CancelWorker ==
    /\ upc = "cancel"
    /\ w_is_cancelled' = [w_is_cancelled EXCEPT ![current_worker] = TRUE]
    /\ upc' = "wait"
    /\ UNCHANGED request
    /\ UNCHANGED <<wpc, wrun, wsignals, total_duration, curline, cvret, cvsite,
                   progSink, errSink>>
    /\ UNCHANGED <<bvars, pvars>>
    /\ UNCHANGED ovars

\* line 225: current_worker.wait() returns once the thread has ended; 227
CancelWait ==
    /\ upc = "wait"
    /\ ~wrun[current_worker]
    /\ upc' = "idle"
    /\ UNCHANGED request
    /\ UNCHANGED <<bvars, wvars, pvars>>
    /\ UNCHANGED ovars

\* -------------------------------------------------------- specifications
Worker(j, L, P, C) ==
    \/ CvLaunch(j, P)
    \/ CvReadLine(j)
    \/ CvWaitTerminated(j)
    \/ CvWaitTimeout(j)
    \/ CvWaitKilled(j)
    \/ CvLine(j)
    \/ CvEndOfStream(j)
    \/ CvWaitExit(j)
    \/ WorkerFinish(j)
    \/ EncWrite(j, L)
    \/ EncClose(j)
    \/ EncExit(j, C)

\* A batch whose encoders write nothing to stderr that read_stderr would pass
\* on (the worker's error sink, _on_error, only logs).
Next ==
    \/ BatchLoop
    \/ BatchFileStarted
    \/ BatchCreateWorker
    \/ BatchStartWorker
    \/ BatchDeliver
    \/ BatchPostCheck
    \/ BatchEmitResult
    \/ CancelSetFlag
    \/ CancelCheckWorker
    \/ CancelWorker
    \/ CancelWait
    \/ \E j \in Jobs : Worker(j, BatchLines, BatchProbes, BatchExitCodes)

Spec == Init /\ [][Next]_vars

\* A lone ConversionWorker (job 0) that was started without a batch; the host
\* may call its cancel() (lines 100-104) at any time.
InitCV ==
    /\ InitCommon
    /\ OthersIdle
    /\ total = 0
    /\ bpc = "none"
    /\ wpc = [j \in Jobs |-> IF j = 0 THEN "launch" ELSE "new"]
    /\ wrun = [j \in Jobs |-> j = 0]

WorkerCancel ==
    /\ bpc = "none"
    /\ ~w_is_cancelled[0]
    /\ w_is_cancelled' = [w_is_cancelled EXCEPT ![0] = TRUE]
    /\ UNCHANGED <<wpc, wrun, wsignals, total_duration, curline, cvret, cvsite,
                   progSink, errSink>>
    /\ UNCHANGED <<bvars, pvars, uvars>>
    /\ UNCHANGED ovars

NextCV ==
    \/ WorkerCancel
    \/ ReadStderr(0)
    \/ Worker(0, AllLines, AllProbes, AllExitCodes)

SpecCV == InitCV /\ [][NextCV]_vars

\* A lone ConversionWorker (job 0) whose encoder also writes to stderr, with
\* both pipes bounded. Every thread that can take a step gets to take it; a
\* write blocked on a pipe goes through once the pipe has room; a process
\* that was sent SIGKILL ends. Nothing obliges the host to cancel or the
\* encoder to write, close or exit on its own.
NextErr ==
    \/ WorkerCancel
    \/ read_stderr(0)
    \/ EncWriteErr(0, StderrKinds)
    \/ EncUnblockErr(0)
    \/ Worker(0, BatchLines, BatchProbes, BatchExitCodes)

FairErr ==
    /\ WF_vars(CvLaunch(0, BatchProbes))
    /\ WF_vars(CvReadLine(0))
    /\ WF_vars(CvLine(0))
    /\ WF_vars(CvEndOfStream(0))
    /\ WF_vars(CvWaitExit(0))
    /\ WF_vars(CvWaitTerminated(0))
    /\ WF_vars(CvWaitTimeout(0))
    /\ WF_vars(CvWaitKilled(0))
    /\ WF_vars(WorkerFinish(0))
    /\ WF_vars(read_stderr(0))
    /\ WF_vars(EncUnblockErr(0))
    /\ WF_vars(killSent[0] /\ EncExit(0, BatchExitCodes))

SpecErr == InitCV /\ [][NextErr]_vars /\ FairErr

\* A batch of one file whose encoder writes lines that can be told apart.
FwdLines == OutTimeLines \cup { Line("speed", TRUE, TRUE, 1500) }

InitFwd ==
    /\ InitCommon
    /\ OthersIdle
    /\ total = 1
    /\ bpc = "loop"
    /\ wpc = [j \in Jobs |-> "new"]
    /\ wrun = [j \in Jobs |-> FALSE]

NextFwd ==
    \/ BatchLoop
    \/ BatchFileStarted
    \/ BatchCreateWorker
    \/ BatchStartWorker
    \/ BatchDeliver
    \/ BatchPostCheck
    \/ BatchEmitResult
    \/ CancelSetFlag
    \/ CancelCheckWorker
    \/ CancelWorker
    \/ CancelWait
    \/ \E j \in Jobs : Worker(j, FwdLines, BatchProbes, BatchExitCodes)

SpecFwd == InitFwd /\ [][NextFwd]_vars

\* convert_video reading a stream that is already complete: the encoder of
\* job 0 was launched, wrote its lines (they wait in the pipe), closed stdout
\* and exited with code 0 before the first line was read.
SeqsUpTo(S, n) == UNION { [1 .. k -> S] : k \in 0 .. n }

InitParse ==
    /\ total = 0 /\ bpc = "none" /\ index = 0
    /\ b_is_cancelled = FALSE /\ current_worker = None
    /\ success = FALSE /\ error_message = ""
    /\ bqueue = << >> /\ events = << >>
    /\ wpc = [j \in Jobs |-> IF j = 0 THEN "read" ELSE "new"]
    /\ wrun = [j \in Jobs |-> j = 0]
    /\ w_is_cancelled = [j \in Jobs |-> FALSE]
    /\ wsignals = [j \in Jobs |-> IF j = 0 THEN << "conversion_started" >> ELSE << >>]
    /\ \E p \in AllProbes :
          total_duration = [j \in Jobs |-> IF j = 0 THEN DurationOf(p) ELSE None]
    /\ curline = [j \in Jobs |-> NoLine]
    /\ cvret = [j \in Jobs |-> "none"]
    /\ cvsite = [j \in Jobs |-> 0]
    /\ progSink = [j \in Jobs |-> << >>]
    /\ errSink = [j \in Jobs |-> << >>]
    /\ proc = [j \in Jobs |-> IF j = 0 THEN "exited" ELSE "none"]
    /\ launches = [j \in Jobs |-> IF j = 0 THEN 1 ELSE 0]
    /\ stdoutOpen = [j \in Jobs |-> FALSE]
    /\ \E ls \in SeqsUpTo(ParseLines, ParseLen) :
          /\ stdoutBuf = [j \in Jobs |-> IF j = 0 THEN ls ELSE << >>]
          /\ written = Len(ls)
    /\ rc = [j \in Jobs |-> IF j = 0 THEN 0 ELSE None]
    /\ termSent = [j \in Jobs |-> FALSE]
    /\ killSent = [j \in Jobs |-> FALSE]
    /\ upc = "idle"
    /\ request = NoRequest
    /\ stderrBuf = [j \in Jobs |-> << >>]
    /\ errPending = [j \in Jobs |-> "none"]
    /\ errWritten = [j \in Jobs |-> 0]
    /\ reader = [j \in Jobs |-> IF j = 0 THEN "done" ELSE "none"]
    /\ OthersIdle

NextParse ==
    \/ CvReadLine(0)
    \/ CvLine(0)
    \/ CvEndOfStream(0)
    \/ CvWaitExit(0)
    \/ WorkerFinish(0)

SpecParse == InitParse /\ [][NextParse]_vars

\* ================================================================ claims
EventIdx == 1 .. Len(events)
Count(e) == Cardinality({k \in EventIdx : events[k].e = e})
IsResult(ev) == ev.e \in {"file_finished", "file_failed"}
Terminated == bpc \in {"done", "raised"}

\* C1: file_started events come in strictly increasing index order (so at
\* most once per index), and file_started(i+1) is emitted only after
\* file_finished(i) or file_failed(i) has been emitted.
C1_StartedSerialized ==
    \A k \in EventIdx :
        events[k].e = "file_started" =>
            /\ \A m \in 1 .. (k - 1) :
                  events[m].e = "file_started" => events[m].i < events[k].i
            /\ events[k].i > 0 =>
                  \E m \in 1 .. (k - 1) :
                      IsResult(events[m]) /\ events[m].i = events[k].i - 1

\* the second job was started after the first one failed
C1_Witness ==
    \E k \in EventIdx, m \in EventIdx :
        /\ m < k
        /\ events[m] .e = "file_failed" /\ events[m].i = 0
        /\ events[k].e = "file_started" /\ events[k].i = 1

\* C2: every job launches at most one encoder subprocess (so at most one is
\* alive per job) and at most one ConversionWorker is running at any time.
C2_OneEncoderOneWorker ==
    /\ \A j \in Jobs : launches[j] <= 1
    /\ Cardinality({j \in Jobs : wrun[j]}) <= 1
    /\ \A j \in Jobs : Alive(j) => launches[j] = 1

\* the second job's worker runs with a live encoder after the first job ended
C2_Witness ==
    \E j \in Jobs : j > 0 /\ wrun[j] /\ Alive(j) /\ wpc[0] = "done"

LastEvent == events[Len(events)]
Requested == request # NoRequest
StartedFrom(i) == \E k \in EventIdx : events[k].e = "file_started" /\ events[k].i >= i
ResultFrom(i) == \E k \in EventIdx : IsResult(events[k]) /\ events[k].i >= i

C5_Original ==
    [][(upc # "idle" /\ upc' = "idle") =>
          /\ b_is_cancelled'
          /\ upc = "wait" => w_is_cancelled[current_worker]
          /\ current_worker # None =>
                /\ ~wrun'[current_worker]
                /\ proc'[current_worker] # "running"]_vars

\* C6 as claimed: every execution of run() ends with exactly one of
\* all_finished and batch_cancelled.
C6_Original ==
    /\ Count("all_finished") + Count("batch_cancelled") <= 1
    /\ Terminated => Count("all_finished") + Count("batch_cancelled") = 1

\* The batch's lifecycle events: everything it emits except progress reports.
IsLifecycle(ev) == ev.e # "progress_updated"
Lifecycle == SelectSeq(events, IsLifecycle)

\* C7 as claimed: without any cancel request, a finished run has emitted, for
\* every index in order, file_started and then exactly one result event, and
\* then exactly one all_finished.
C7_Original ==
    (Terminated /\ ~Requested) =>
        /\ Len(Lifecycle) = 2 * total + 1
        /\ \A i \in 0 .. (total - 1) :
              /\ Lifecycle[2 * i + 1].e = "file_started" /\ Lifecycle[2 * i + 1].i = i
              /\ IsResult(Lifecycle[2 * i + 2]) /\ Lifecycle[2 * i + 2].i = i
        /\ Lifecycle[Len(Lifecycle)].e = "all_finished"

\* ------------------------------------------------ convert_video (SpecCV)
\* convert_video of job j has returned or raised
Resolved(j) == wpc[j] \in {"after", "done"}
ErrIdx(j) == 1 .. Len(errSink[j])
Exceptions == {"FileNotFoundError", "UnicodeDecodeError", "UnboundLocalError"}

\* C8: convert_video never raises: it leaves through one of its return
\* statements, True from line 207 (Success) and False from line 144
\* (Cancelled), 216 or 227 (Failure); and an exception raised by the launch,
\* by reading stdout or by the loop body makes it return False from the
\* handler of lines 223-227 in the very step that hands the exception's
\* message to the error sink.
C8_NeverRaises ==
    /\ [](\A j \in Jobs :
            /\ cvret[j] # "raised"
            /\ Resolved(j) =>
                  /\ cvret[j] \in {"True", "False"}
                  /\ cvsite[j] \in {144, 207, 216, 227}
                  /\ cvret[j] = "True" <=> cvsite[j] = 207
                  /\ cvsite[j] = 227 =>
                        \E k \in ErrIdx(j) : errSink[j][k].kind \in Exceptions)
    /\ [][\A j \in Jobs :
            (cvsite[j] # 227 /\ cvsite'[j] = 227) =>
                /\ cvret'[j] = "False"
                /\ \E x \in Exceptions : errSink'[j] = Append(errSink[j], ErrExc(x))]_vars

\* C8's case: the decoder raised while stdout was read, and convert_video
\* returned False after passing the message on.
C8_Witness ==
    /\ Resolved(0) /\ cvsite[0] = 227 /\ cvret[0] = "False"
    /\ \E k \in ErrIdx(0) : errSink[0][k] = ErrExc("UnicodeDecodeError")

\* What C9 says in both of its forms: a line reaches the loop body only when
\* the cancel check was false for it; when the check is true, terminate() is
\* called and the 3-second wait begins; kill() is called only from that wait
\* and only on a subprocess still alive after terminate(); the cancelled call
\* returns False from line 144 and never by the exit-code path; and once the
\* check was true the progress sink is not called again.
C9_Common(j) ==
    /\ (wpc[j] = "read" /\ wpc'[j] = "line") => ~cancel_check(j)
    /\ (wpc[j] = "read" /\ wpc'[j] \in {"line", "wait3"} /\ cancel_check(j)) =>
          /\ wpc'[j] = "wait3"
          /\ Alive(j) => termSent'[j]
    /\ wpc'[j] = "wait3" => (wpc[j] = "wait3" \/ (wpc[j] = "read" /\ cancel_check(j)))
    /\ (~killSent[j] /\ killSent'[j]) =>
          wpc[j] = "wait3" /\ Alive(j) /\ termSent[j]
    /\ (wpc[j] \in {"wait3", "reap"} /\ wpc'[j] \notin {"wait3", "reap"}) =>
          /\ wpc'[j] = "after" /\ cvsite'[j] = 144 /\ cvret'[j] = "False"
          /\ proc'[j] # "running"
    /\ cvsite'[j] = 144 => wpc[j] \in {"wait3", "reap", "after", "done"}
    /\ (wpc[j] \in {"wait3", "reap"} \/ cvsite[j] = 144) => progSink'[j] = progSink[j]

\* C9 as claimed: as above, and when the 3-second wait is over (the
\* subprocess exited, or it was killed) convert_video returns without
\* waiting again.
C9_Original ==
    [][\A j \in Jobs :
          /\ C9_Common(j)
          /\ (wpc[j] = "wait3" /\ wpc'[j] # "wait3") => wpc'[j] = "after"]_vars

\* C9, amended: as above, and when the 3-second wait is over convert_video
\* returns at once if the subprocess exited, and otherwise kills it and waits,
\* without a time bound, for the killed subprocess to be gone (line 143)
\* before it returns.
C9_CancelBeforeEachLine ==
    [][\A j \in Jobs :
          /\ C9_Common(j)
          /\ (wpc[j] = "wait3" /\ wpc'[j] # "wait3") =>
                \/ ~Alive(j) /\ wpc'[j] = "after"
                \/ Alive(j) /\ killSent'[j] /\ wpc'[j] = "reap"
          /\ (wpc[j] = "reap" /\ wpc'[j] # "reap") => (~Alive(j) /\ rc[j] = SigKillCode)]_vars

\* C9's case: a line was processed, then the check was true, the subprocess
\* outlived terminate() for 3 seconds, was killed, and the call returned.
C9_Witness ==
    /\ Resolved(0) /\ cvsite[0] = 144 /\ cvret[0] = "False"
    /\ termSent[0] /\ killSent[0] /\ rc[0] = SigKillCode
    /\ Len(progSink[0]) >= 1

Contains(text, sub) ==
    \E i \in 1 .. (Len(text) - Len(sub) + 1) :
        SubSeq(text, i, i + Len(sub) - 1) = sub

\* C11 as claimed: without a cancel request, the result the batch emits for a
\* job whose encoder exited with a non-zero code N (convert_video returned
\* from line 216) is file_failed, never file_finished, and its error text
\* contains N.
C11_Original ==
    ~Requested =>
        \A k \in EventIdx :
            (IsResult(events[k]) /\ cvsite[events[k].i] = 216) =>
                /\ events[k].e = "file_failed"
                /\ Contains(events[k].d.error, ToString(rc[events[k].i]))

\* ------------------------------------------------ unknown duration (C12)
\* C12 as claimed: without a cancel request, a job whose probe failed
\* (total_duration is None) and whose encoder was launched and did not exit
\* with a non-zero code ends with file_finished, and each of its progress
\* events carries the elapsed time and no percentage.
C12_Original ==
    ~Requested =>
        \A k \in EventIdx :
            LET i == events[k].i IN
            (i # None /\ total_duration[i] = None /\ launches[i] = 1
                      /\ cvsite[i] # 216) =>
                /\ IsResult(events[k]) => events[k].e = "file_finished"
                /\ events[k].e = "progress_updated" =>
                      /\ "time" \in DOMAIN events[k].d
                      /\ "progress" \notin DOMAIN events[k].d

\* ------------------------------------------------ line parsing (SpecParse)
\* rationals in lowest terms, so that comparing them needs no large products
RECURSIVE GCD(_, _)
GCD(a, b) == IF b = 0 THEN a ELSE GCD(b, a % b)
Norm(a) ==
    LET g == GCD(a[1], a[2]) IN IF g = 0 THEN a ELSE Rat(a[1] \div g, a[2] \div g)
RatEq(a, b) == Norm(a) = Norm(b)
SinkIdx(j) == 1 .. Len(progSink[j])
\* the loop body is about to run on the line "key=<integer v>", v >= 0
OutTimeAt(j) ==
    /\ wpc[j] = "line" /\ curline[j].key = "out_time_ms" /\ curline[j].eq
    /\ curline[j].txt.form = "int" /\ curline[j].txt.suf = ""
    /\ curline[j].txt.num >= 0

\* C13: with a known duration d > 0, the loop body run on out_time_ms=v,
\* v >= 0, makes exactly one progress-sink call, whose record has
\* time = v / 1000000 and progress = min(time / d * 100, 100); and every
\* record the sink ever received has 0 <= progress <= 100.
C13_ProgressClamped ==
    /\ [](\A j \in Jobs : \A k \in SinkIdx(j) :
            "progress" \in DOMAIN progSink[j][k] =>
                /\ RatLeq(Rat(0, 1), progSink[j][k].progress)
                /\ RatLeq(progSink[j][k].progress, Rat(100, 1)))
    /\ [][\A j \in Jobs :
            (OutTimeAt(j) /\ DurationKnown(total_duration[j]) /\ wpc'[j] # "line") =>
                /\ Len(progSink'[j]) = Len(progSink[j]) + 1
                /\ SubSeq(progSink'[j], 1, Len(progSink[j])) = progSink[j]
                /\ LET rec == progSink'[j][Len(progSink'[j])]
                       v == curline[j].txt.num
                       t == Norm(rec.time)
                       raw == Norm(Rat(t[1] * 100, t[2] * total_duration[j]))
                   IN  /\ RatEq(rec.time, Rat(v, 1000000))
                       /\ RatLeq(raw, Rat(100, 1)) => RatEq(rec.progress, raw)
                       /\ ~RatLeq(raw, Rat(100, 1)) => RatEq(rec.progress, Rat(100, 1))]_vars

\* C13's case: with duration 10, out_time_ms=5000000 gave 50 percent and
\* out_time_ms=20000000 gave the clamped 100 percent at time 20.
C13_Witness ==
    /\ total_duration[0] = 10 /\ Len(progSink[0]) = 2
    /\ \A k \in SinkIdx(0) : "progress" \in DOMAIN progSink[0][k]
    /\ RatEq(progSink[0][1].time, Rat(5, 1))
    /\ RatEq(progSink[0][1].progress, Rat(50, 1))
    /\ RatEq(progSink[0][2].time, Rat(20, 1))
    /\ RatEq(progSink[0][2].progress, Rat(100, 1))

\* everything of job j's conversion except the line in hand and the position
\* in the loop, and everything outside it
Untouched(j) ==
    <<wrun[j], w_is_cancelled[j], wsignals[j], total_duration[j], cvret[j],
      cvsite[j], progSink[j], errSink[j], bvars, pvars, uvars>>

RecognizedKeys == {"out_time_ms", "speed", "bitrate"}

\* the loop body is about to run on "key=<text>" with a recognized key and a
\* text that is no number, or no integer where out_time_ms needs one
MalformedAt(j) ==
    /\ wpc[j] = "line" /\ curline[j].eq /\ curline[j].key \in RecognizedKeys
    /\ \/ curline[j].txt.form = "na"
       \/ curline[j].key = "out_time_ms" /\ curline[j].txt.form # "int"

\* C14: the loop body run on a line with a malformed value for a recognized
\* key calls neither sink, raises nothing and goes back to reading, leaving
\* the conversion exactly as it was before the line arrived (so the lines
\* that follow are processed, and the result is, as if the line had not been
\* there); and a complete stream from an encoder that exited 0, malformed
\* lines or not, ends in Success when the duration is known.
C14_MalformedSkipped ==
    /\ [](\A j \in Jobs :
            (Resolved(j) /\ DurationKnown(total_duration[j])) =>
                cvsite[j] = 207 /\ cvret[j] = "True" /\ errSink[j] = << >>)
    /\ [][\A j \in Jobs :
            (MalformedAt(j) /\ wpc'[j] # "line") =>
                /\ wpc'[j] = "read"
                /\ curline'[j] = NoLine
                /\ Untouched(j)' = Untouched(j)]_vars

\* C14's case: after one progress call, a malformed line is being processed
\* and another line waits behind it.
C14_Witness ==
    /\ MalformedAt(0) /\ DurationKnown(total_duration[0])
    /\ Len(progSink[0]) = 1 /\ Len(stdoutBuf[0]) = 1

\* the loop body is about to run on a line that is empty once stripped, has
\* no '=', or has a key other than out_time_ms, speed and bitrate
IgnorableAt(j) ==
    /\ wpc[j] = "line"
    /\ \/ curline[j].key = ""
       \/ ~curline[j].eq
       \/ curline[j].key \notin RecognizedKeys

\* C15: the loop body run on an empty line, a line without '=' or a line
\* with an unrecognized key calls neither sink, raises nothing and goes back
\* to reading, leaving the conversion exactly as it was before the line
\* arrived.
C15_IgnoredLines ==
    [][\A j \in Jobs :
          (IgnorableAt(j) /\ wpc'[j] # "line") =>
              /\ wpc'[j] = "read"
              /\ curline'[j] = NoLine
              /\ Untouched(j)' = Untouched(j)]_vars

\* C15's case: after one progress call, a line with the key "frame" is being
\* processed and another line waits behind it.
C15_Witness ==
    /\ IgnorableAt(0) /\ curline[0].key = "frame"
    /\ Len(progSink[0]) = 1 /\ Len(stdoutBuf[0]) = 1

\* the number a text denotes, as a rational
TextValue(t) == IF t.form = "int" THEN Rat(t.num, 1) ELSE Rat(t.num, 1000)

\* the loop body is about to run on "key=<number><suffix>"
NumberAt(j, key, suffix) ==
    /\ wpc[j] = "line" /\ curline[j].eq /\ curline[j].key = key
    /\ curline[j].txt.form \in {"int", "float"} /\ curline[j].txt.suf = suffix

\* the step made exactly one progress-sink call, with a record whose only
\* field is f, and went back to reading without calling the error sink
OneCall(j, f) ==
    /\ Len(progSink'[j]) = Len(progSink[j]) + 1
    /\ SubSeq(progSink'[j], 1, Len(progSink[j])) = progSink[j]
    /\ DOMAIN progSink'[j][Len(progSink'[j])] = {f}
    /\ errSink'[j] = errSink[j]
    /\ wpc'[j] = "read"

\* C16: the loop body run on speed=<float>x makes exactly one progress-sink
\* call, with {speed: float}; run on bitrate=<float>kbits/s it makes exactly
\* one, with {bitrate_mbps: float / 1000}.
C16_SpeedAndBitrate ==
    [][\A j \in Jobs :
          /\ (NumberAt(j, "speed", "x") /\ wpc'[j] # "line") =>
                /\ OneCall(j, "speed")
                /\ RatEq(progSink'[j][Len(progSink'[j])].speed,
                         TextValue(curline[j].txt))
          /\ (NumberAt(j, "bitrate", "kbits/s") /\ wpc'[j] # "line") =>
                /\ OneCall(j, "bitrate_mbps")
                /\ LET f == TextValue(curline[j].txt) IN
                   RatEq(progSink'[j][Len(progSink'[j])].bitrate_mbps,
                         Rat(f[1], f[2] * 1000))]_vars

\* C16's case: speed=1.5x and then bitrate=4000.5kbits/s were processed.
C16_Witness ==
    /\ Len(progSink[0]) = 2
    /\ DOMAIN progSink[0][1] = {"speed"}
    /\ RatEq(progSink[0][1].speed, Rat(3, 2))
    /\ DOMAIN progSink[0][2] = {"bitrate_mbps"}
    /\ RatEq(progSink[0][2].bitrate_mbps, Rat(40005, 10000))

\* C17: with a known duration, what the loop body does with a line does not
\* depend on what earlier iterations left behind (progress_percent is the
\* only local that could carry over, and it is bound again before it is
\* read): the outcome is the one for the line processed first in the stream,
\* so the same line gives the same updates wherever it comes again.
C17_Stateless ==
    /\ [](\A j \in Jobs :
            (wpc[j] = "line" /\ DurationKnown(total_duration[j])) =>
                \A pb \in BOOLEAN :
                    ProcessLine(curline[j], total_duration[j], pb) =
                    ProcessLine(curline[j], total_duration[j], PercentBound(j)))
    /\ [][\A j \in Jobs :
            (wpc[j] = "line" /\ DurationKnown(total_duration[j]) /\ wpc'[j] # "line") =>
                LET r == ProcessLine(curline[j], total_duration[j], FALSE) IN
                /\ r.act # "raise" /\ wpc'[j] = "read" /\ errSink'[j] = errSink[j]
                /\ progSink'[j] = IF r.act = "call" THEN Append(progSink[j], r.data)
                                  ELSE progSink[j]]_vars

\* C17's case: an out_time_ms line, then a speed line, then the first line
\* again, which gave the same update as the first time.
C17_Witness ==
    /\ Len(progSink[0]) = 3 /\ wpc[0] = "read"
    /\ "progress" \in DOMAIN progSink[0][1]
    /\ DOMAIN progSink[0][2] = {"speed"}
    /\ progSink[0][3] = progSink[0][1]

\* ------------------------------------------- progress forwarding (SpecFwd)
Prefix(a, b) == Len(a) <= Len(b) /\ SubSeq(b, 1, Len(a)) = a
DataOf(s) == [k \in 1 .. Len(s) |-> s[k].d]
\* the progress records the batch has forwarded for job j, in order
Forwarded(j) ==
    LET T(ev) == ev.e = "progress_updated" /\ ev.i = j
    IN  DataOf(SelectSeq(events, T))
\* the progress records of job j queued for the batch thread, in order
Queued(j) ==
    LET T(m) == m.sig = "progress_updated" /\ m.job = j
    IN  DataOf(SelectSeq(bqueue, T))

\* C18: the progress records the batch has forwarded for the current job,
\* followed by those still queued for it, are the first of the records that
\* convert_video handed to its progress sink, in the same order (the order
\* in which the lines came out of the encoder's pipe): none is reordered,
\* none is duplicated, and only a cancelled worker leaves later ones out.
C18_ProgressInOrder ==
    \A j \in Jobs :
        /\ current_worker = j => Prefix(Forwarded(j) \o Queued(j), progSink[j])
        /\ (current_worker = j /\ ~w_is_cancelled[j]) =>
              Forwarded(j) \o Queued(j) = progSink[j]

\* C18's case: two different records were produced and forwarded in order.
C18_Witness ==
    /\ current_worker = 0 /\ Len(progSink[0]) = 2
    /\ progSink[0][1] # progSink[0][2]
    /\ Forwarded(0) = progSink[0]

\* ------------------------------------------------ progress tagging (Spec)
Range(s) == { s[k] : k \in 1 .. Len(s) }

\* C19: every progress_updated event carries the index of the job whose
\* convert_video produced its record (the job the batch is waiting for at
\* that moment), and it comes after that job's file_started and before that
\* job's file_finished or file_failed, before batch_cancelled and before
\* all_finished.
C19_ProgressTagged ==
    /\ [](\A k \in EventIdx :
            events[k].e = "progress_updated" =>
                /\ \E s \in 1 .. (k - 1) :
                      events[s].e = "file_started" /\ events[s].i = events[k].i
                /\ \A r \in 1 .. (k - 1) :
                      /\ ~(IsResult(events[r]) /\ events[r].i = events[k].i)
                      /\ events[r].e \notin {"batch_cancelled", "all_finished"})
    /\ [][(Len(events') = Len(events) + 1
             /\ events'[Len(events')].e = "progress_updated") =>
                LET ev == events'[Len(events')] IN
                /\ ev.i = index /\ ev.i = current_worker
                /\ ev.d \in Range(progSink[ev.i])]_vars

\* C19's case: two jobs reported progress, the first one then succeeded.
C19_Witness ==
    /\ \E k \in EventIdx :
          /\ events[k].e = "progress_updated" /\ events[k].i = 0
          /\ \E r \in EventIdx : r > k /\ events[r].e = "file_finished" /\ events[r].i = 0
    /\ \E k \in EventIdx : events[k].e = "progress_updated" /\ events[k].i = 1

\* --------------------------------------------------- stderr pipe (SpecErr)
\* convert_video of job j is between Popen and its return
Running(j) == HoldsPipes(j)

\* C20 as claimed: while convert_video is running, an encoder blocked in a
\* write to a full stderr pipe does not stay blocked forever, and once the
\* encoder has exited convert_video returns.
C20_Original ==
    /\ \A j \in Jobs :
          (BlockedOnStderr(j) /\ Running(j)) ~> ~(BlockedOnStderr(j) /\ Running(j))
    /\ \A j \in Jobs : (proc[j] = "exited") ~> Resolved(j)

\* --------------------------------------------- ConversionWorker (SpecCV)
TerminalSignals == {"conversion_finished", "conversion_failed", "conversion_cancelled"}

\* C21: a worker emits nothing before run() starts; the first signal it emits
\* is conversion_started, emitted once; a terminal signal
\* (conversion_finished, conversion_failed, conversion_cancelled) is the last
\* signal emitted, so there is at most one; a worker whose run() has ended has
\* emitted one; and the encoder is launched at most once.
C21_WorkerLifecycle ==
    \A j \in Jobs :
        LET s == wsignals[j] IN
        /\ launches[j] <= 1
        /\ wpc[j] \in {"new", "launch"} => s = << >>
        /\ \A k \in 1 .. Len(s) :
              /\ (s[k] = "conversion_started") <=> (k = 1)
              /\ s[k] \in TerminalSignals => k = Len(s)
        /\ wpc[j] = "done" <=> (s # << >> /\ s[Len(s)] \in TerminalSignals)

\* C21's case: a run that reported progress and ended with each of the
\* terminal signals is reachable; this one succeeded after a progress report.
C21_Witness ==
    /\ wpc[0] = "done" /\ launches[0] = 1
    /\ wsignals[0] = << "conversion_started", "progress_updated", "conversion_finished" >>

\* ====================================================== VideoAnalyzer
\* ------------------------------------------------------------- bounds
MaxStreams == 2      \* most streams in a probe document

\* ------------------------------------------------------ probe documents
\* A field of the probe document that is not there
Absent == [absent |-> TRUE]
\* dict.get(key, default)
Get(m, k, default) == IF k \in DOMAIN m THEN m[k] ELSE default

\* Sizes of a video stream, on both sides of each bucket boundary, and with
\* a zero
Resolutions == { <<1280, 720>>, <<1281, 720>>, <<1920, 1080>>, <<1921, 1080>>,
                 <<2560, 1440>>, <<2561, 1440>>, <<3840, 2160>>, <<720, 1280>>,
                 <<0, 720>>, <<1280, 0>> }
\* those that the probe documents use
DocResolutions == { <<1280, 720>>, <<1921, 1080>>, <<0, 720>> }

\* r_frame_rate texts: "30000/1001", "25", "0/0", "abc"
RateTexts == { [slash |-> TRUE, num |-> Text("int", 30000, ""), den |-> Text("int", 1001, "")],
               [slash |-> FALSE, num |-> Text("int", 25, ""), den |-> Absent],
               [slash |-> TRUE, num |-> Text("int", 0, ""), den |-> Text("int", 0, "")],
               [slash |-> FALSE, num |-> Text("na", 0, ""), den |-> Absent] }

VideoStream(res, rate) ==
    [codec_type |-> "video", width |-> res[1], height |-> res[2],
     codec_name |-> "hevc", r_frame_rate |-> rate]
AudioStream == [codec_type |-> "audio", codec_name |-> "aac", sample_rate |-> 48000, channels |-> 2]
\* a video stream without width, height and r_frame_rate keys
BareVideoStream == [codec_type |-> "video", codec_name |-> "hevc"]
OtherStream == [codec_type |-> "subtitle", codec_name |-> "mov_text"]

Streams ==
    { VideoStream(res, CHOOSE r \in RateTexts : r.slash /\ r.den.num # 0) : res \in DocResolutions } \cup
    { VideoStream(<<1920, 1080>>, r) : r \in RateTexts } \cup
    { AudioStream, BareVideoStream, OtherStream }

\* format.duration texts: none, "N/A", "0.000000", "10.000000"
DurationTexts == { Absent, Text("na", 0, ""), Text("float", 0, ""), Text("float", 10000, "") }
\* format.bit_rate texts: none, "5000000", "5000.5"
BitRateTexts == { Absent, Text("int", 5000000, ""), Text("float", 5000500, "") }

\* st_size of the input file, in bytes (10 MiB); None: stat() raises OSError
FileSizes == { 10485760 }

\* What running ffprobe can come to (get_video_info, lines 42-67)
ProbeFailures == { "timeout", "nonzero exit", "undecodable output", "not JSON", "no binary" }

EmptyDoc == [empty |-> TRUE]
Docs ==
    { [format |-> [duration |-> d, bit_rate |-> b], streams |-> ss] :
        d \in DurationTexts, b \in BitRateTexts, ss \in SeqsUpTo(Streams, MaxStreams) } \cup
    { EmptyDoc }

\* ------------------------------------------------------ pure parts
RatMul(a, b) ==
    LET x == Norm(a)
        y == Norm(b)
    IN  Norm(Rat(x[1] * y[1], x[2] * y[2]))

\* int(text), line 45
ParseBitRateField(t) ==
    IF t = Absent THEN [ok |-> TRUE, val |-> 0] ELSE ParseInt(t)
\* float(text), line 44; val in thousandths of a second
ParseDurationField(t) ==
    IF t = Absent THEN [ok |-> TRUE, val |-> 0] ELSE ParseFloat(t)

\* VideoAnalyzer._parse_frame_rate (lines 91-109); ValueError and
\* ZeroDivisionError give 0.0
_parse_frame_rate(r) ==
    IF r.slash
    THEN LET n == ParseFloat(r.num)
             d == ParseFloat(r.den)
         IN  IF n.ok /\ d.ok /\ d.val # 0 THEN Norm(Rat(n.val, d.val)) ELSE Rat(0, 1)
    ELSE LET n == ParseFloat(r.num)
         IN  IF n.ok THEN Norm(Rat(n.val, 1000)) ELSE Rat(0, 1)

\* as EstimatedVideoBitrate, with < for <=
EstimatedVideoBitrate_Strict(pixels) ==
    IF pixels < 1280 * 720 THEN 3000
    ELSE IF pixels < 1920 * 1080 THEN 6000
    ELSE IF pixels < 2560 * 1440 THEN 12000
    ELSE 20000

\* as EstimatedVideoBitrate, with the rates of the two middle buckets swapped
EstimatedVideoBitrate_Swapped(pixels) ==
    IF pixels <= 1280 * 720 THEN 3000
    ELSE IF pixels <= 1920 * 1080 THEN 12000
    ELSE IF pixels <= 2560 * 1440 THEN 6000
    ELSE 20000

\* estimate_output_size lines 141-148, kbps
EstimatedVideoBitrate(pixels) ==
    IF pixels <= 1280 * 720 THEN 3000
    ELSE IF pixels <= 1920 * 1080 THEN 6000
    ELSE IF pixels <= 2560 * 1440 THEN 12000
    ELSE 20000

Overhead == Rat(105, 100)

\* VideoAnalyzer.estimate_output_size (lines 111-170), in MB; duration is in
\* thousandths of a second
estimate_output_size(metadata) ==
    LET duration == Get(metadata, "duration", 0)
        width == Get(metadata, "width", 0)
        height == Get(metadata, "height", 0)
        input_size_mb == Get(metadata, "file_size_mb", Rat(0, 1))
    IN  IF duration = 0 \/ width = 0 \/ height = 0
        THEN RatMul(input_size_mb, Overhead)
        ELSE LET total_bitrate == EstimatedVideoBitrate(width * height) + 320
             IN  RatMul(Rat(total_bitrate * duration, 1000 * 8 * 1024), Overhead)

\* ---------------------------------------------------- get_video_metadata
NoInfo == [returned |-> "None"]
NoStream == [stream |-> "None"]
ReturnedNone == [returned |-> "None"]
ReturnedMetadata(m) == [returned |-> "metadata", metadata |-> m]
ReturnedValue(v) == [returned |-> "value", value |-> v]

\* as IsVideo, taking any stream for a video stream
IsVideo_AnyStream(stream) == TRUE

\* line 53: stream.get('codec_type') == 'video'
IsVideo(stream) == Get(stream, "codec_type", "") = "video"
IsAudio(stream) == Get(stream, "codec_type", "") = "audio"

\* FFmpegWrapper.get_video_info (lines 23-67): the parsed document, or None
\* after a timeout, a non-zero exit code, output that is no text or no JSON,
\* or a missing binary
get_video_info ==
    /\ opc = "probe"
    /\ oloc' = [info |-> IF oin.probe = "ok" THEN oin.doc ELSE NoInfo]
    /\ opc' = "info"
    /\ UNCHANGED <<oin, oret>>
    /\ UNCHANGED <<bvars, wvars, pvars, uvars>>

\* get_video_metadata lines 29-50: None for no document; the file's size;
\* duration and bit_rate of the format section. An exception (stat on a
\* file that is gone, float or int on a text that is no number) ends in the
\* handler of lines 87-89.
MetaFormat ==
    /\ opc = "info"
    /\ LET info == oloc.info
           d == ParseDurationField(info.format.duration)
           b == ParseBitRateField(info.format.bit_rate)
       IN  IF info = NoInfo \/ info = EmptyDoc
           THEN /\ oret' = ReturnedNone /\ opc' = "returned" /\ UNCHANGED oloc
           ELSE IF oin.stat = None \/ ~d.ok \/ ~b.ok
           THEN /\ oret' = ReturnedNone /\ opc' = "returned" /\ UNCHANGED oloc
           ELSE /\ oloc' = [info |-> info,
                            metadata |-> [file_size_bytes |-> oin.stat,
                                          file_size_mb |-> Norm(Rat(oin.stat, 1024 * 1024)),
                                          duration |-> d.val,
                                          bit_rate |-> b.val],
                            video_stream |-> NoStream,
                            audio_stream |-> NoStream,
                            i |-> 1]
                /\ opc' = "streams"
                /\ UNCHANGED oret
    /\ UNCHANGED oin
    /\ UNCHANGED <<bvars, wvars, pvars, uvars>>

\* lines 52-56: one iteration of the loop over the streams
MetaStream ==
    /\ opc = "streams"
    /\ oloc.i <= Len(oloc.info.streams)
    /\ LET stream == oloc.info.streams[oloc.i] IN
       oloc' = [oloc EXCEPT
                  !.i = @ + 1,
                  !.video_stream = IF IsVideo(stream) /\ @ = NoStream THEN stream ELSE @,
                  !.audio_stream = IF ~(IsVideo(stream) /\ oloc.video_stream = NoStream)
                                      /\ IsAudio(stream) /\ @ = NoStream
                                   THEN stream ELSE @]
    /\ UNCHANGED <<opc, oin, oret>>
    /\ UNCHANGED <<bvars, wvars, pvars, uvars>>

\* lines 59-85: the video stream's fields (None without one), the audio
\* stream's fields ('none' without one), the size estimate
MetaFinish ==
    /\ opc = "streams"
    /\ oloc.i > Len(oloc.info.streams)
    /\ LET v == oloc.video_stream
           a == oloc.audio_stream
           withVideo == [k \in DOMAIN oloc.metadata \cup {"width", "height", "codec", "fps"} |->
                            CASE k = "width" -> Get(v, "width", 0)
                              [] k = "height" -> Get(v, "height", 0)
                              [] k = "codec" -> Get(v, "codec_name", "unknown")
                              [] k = "fps" -> IF "r_frame_rate" \in DOMAIN v
                                              THEN _parse_frame_rate(v.r_frame_rate)
                                              ELSE Rat(0, 1)
                              [] OTHER -> oloc.metadata[k]]
           withAudio == [k \in DOMAIN withVideo \cup
                                {"audio_codec", "audio_sample_rate", "audio_channels"} |->
                            CASE k = "audio_codec" ->
                                    IF a = NoStream THEN "none" ELSE Get(a, "codec_name", "unknown")
                              [] k = "audio_sample_rate" ->
                                    IF a = NoStream THEN 0 ELSE Get(a, "sample_rate", 0)
                              [] k = "audio_channels" ->
                                    IF a = NoStream THEN 0 ELSE Get(a, "channels", 0)
                              [] OTHER -> withVideo[k]]
           result == [k \in DOMAIN withAudio \cup {"estimated_output_size_mb"} |->
                            IF k = "estimated_output_size_mb"
                            THEN estimate_output_size(withAudio)
                            ELSE withAudio[k]]
       IN  oret' = IF v = NoStream THEN ReturnedNone ELSE ReturnedMetadata(result)
    /\ opc' = "returned"
    /\ UNCHANGED <<oin, oloc>>
    /\ UNCHANGED <<bvars, wvars, pvars, uvars>>

\* a direct call of estimate_output_size
EstimateOutputSize ==
    /\ opc = "estimate"
    /\ oret' = ReturnedValue(estimate_output_size(oin.metadata))
    /\ opc' = "returned"
    /\ UNCHANGED <<oin, oloc>>
    /\ UNCHANGED <<bvars, wvars, pvars, uvars>>

\* ----------------------------------------------------------- SpecMeta
\* Nothing of the conversion core is running.
CoreIdle ==
    /\ InitCommon
    /\ total = 0
    /\ bpc = "none"
    /\ wpc = [j \in Jobs |-> "new"]
    /\ wrun = [j \in Jobs |-> FALSE]

MetaCalls ==
    { [fn |-> "get_video_metadata", probe |-> "ok", doc |-> d, stat |-> st] :
        d \in Docs, st \in FileSizes \cup {None} } \cup
    { [fn |-> "get_video_metadata", probe |-> f, doc |-> EmptyDoc, stat |-> st] :
        f \in ProbeFailures, st \in FileSizes }

Restrict(m, K) == [k \in K |-> m[k]]
EstimateKeys == {"duration", "width", "height", "file_size_mb"}
FullMetadata(d, res) ==
    [duration |-> d, width |-> res[1], height |-> res[2], file_size_mb |-> Rat(10, 1)]
\* durations 0, 2.5 and 10 seconds
EstimateDurations == {0, 2500, 10000}
EstimateCalls ==
    { [fn |-> "estimate_output_size", metadata |-> Restrict(FullMetadata(d, res), K)] :
        d \in EstimateDurations, res \in Resolutions,
        K \in { EstimateKeys \ X : X \in { {}, {"duration"}, {"width"}, {"height"}, {"file_size_mb"} } } }

\* One call of get_video_metadata on some probe outcome, or one call of
\* estimate_output_size on some metadata.
InitMeta ==
    /\ CoreIdle
    /\ oloc = NoCall /\ oret = NoCall
    /\ \/ opc = "probe" /\ oin \in MetaCalls
       \/ opc = "estimate" /\ oin \in EstimateCalls

NextMeta ==
    \/ get_video_info
    \/ MetaFormat
    \/ MetaStream
    \/ MetaFinish
    \/ EstimateOutputSize

SpecMeta == InitMeta /\ [][NextMeta]_vars

\* ------------------------------------------------ VideoAnalyzer claims
\* get_video_metadata has returned
MetaReturned == opc = "returned" /\ oin.fn = "get_video_metadata"
\* the streams of the document ffprobe printed (none when the probe failed)
DocStreams == IF oin.probe = "ok" /\ oin.doc # EmptyDoc THEN oin.doc.streams ELSE << >>
HasVideo == \E k \in 1 .. Len(DocStreams) : DocStreams[k].codec_type = "video"
HasAudio == \E k \in 1 .. Len(DocStreams) : DocStreams[k].codec_type = "audio"
\* the file can be stat'ed and the format section's numbers are numbers
RestReadable ==
    /\ oin.probe = "ok" /\ oin.doc # EmptyDoc /\ oin.stat # None
    /\ ParseDurationField(oin.doc.format.duration).ok
    /\ ParseBitRateField(oin.doc.format.bit_rate).ok
IsMetadata(r) == r.returned = "metadata"

\* C22 as claimed: no video stream gives None; a video stream without an
\* audio stream gives metadata with audio_codec 'none'.
C22_Original ==
    MetaReturned =>
        /\ ~HasVideo => oret = ReturnedNone
        /\ (HasVideo /\ ~HasAudio) => (IsMetadata(oret) /\ oret.metadata.audio_codec = "none")

\* C22: without a video stream get_video_metadata returns None. With a video
\* stream and no audio stream it returns metadata with audio_codec 'none',
\* zero sample rate and zero channels, provided the rest of the document and
\* the file are readable; whenever it returns metadata for a document without
\* an audio stream, audio_codec is 'none'.
C22_NoVideoNoAudio ==
    MetaReturned =>
        /\ ~HasVideo => oret = ReturnedNone
        /\ (HasVideo /\ RestReadable) => IsMetadata(oret)
        /\ (IsMetadata(oret) /\ ~HasAudio) =>
              /\ oret.metadata.audio_codec = "none"
              /\ oret.metadata.audio_sample_rate = 0
              /\ oret.metadata.audio_channels = 0
        /\ (IsMetadata(oret) /\ HasAudio) => oret.metadata.audio_codec = "aac"

\* C22's cases: a document with a video stream only came back as metadata,
\* after other streams were looked at.
C22_Witness ==
    /\ MetaReturned /\ HasVideo /\ ~HasAudio /\ Len(DocStreams) = 2
    /\ IsMetadata(oret) /\ oret.metadata.audio_codec = "none"

\* The analyzer's half of C23, on SpecMeta: get_video_metadata ends by
\* returning, and it returns None after a failed probe, for an empty
\* document, when the file cannot be stat'ed and when duration or bit_rate is
\* no number.
C23_AnalyzerReturnsNone ==
    /\ opc \in {"probe", "info", "streams", "estimate", "returned"}
    /\ MetaReturned =>
          /\ oret.returned \in {"None", "metadata"}
          /\ ~RestReadable => oret = ReturnedNone

\* C23 as claimed, the caller's half, on SpecParse: when convert_video has no
\* duration (the probe gave None, or a duration that is no number), an
\* out_time_ms line is reported without a percentage and the loop goes on to
\* the next line.
C23_Original ==
    [][\A j \in Jobs :
          (OutTimeAt(j) /\ total_duration[j] = None /\ wpc'[j] # "line") =>
              /\ wpc'[j] = "read"
              /\ Len(progSink'[j]) = Len(progSink[j]) + 1
              /\ "progress" \notin DOMAIN progSink'[j][Len(progSink'[j])]]_vars

\* the estimate a call has returned, and the metadata it was computed from
EstimateReturned ==
    opc = "returned" /\ (oin.fn = "estimate_output_size" \/ IsMetadata(oret))
EstimateArg == IF oin.fn = "estimate_output_size" THEN oin.metadata ELSE oret.metadata
EstimateValue ==
    IF oin.fn = "estimate_output_size" THEN oret.value
    ELSE oret.metadata.estimated_output_size_mb
\* a key's value, 0 when the key is missing
Field(m, k) == IF k \in DOMAIN m THEN m[k] ELSE 0
\* the bucket table as the claim states it
ClaimedBitrate(pixels) ==
    CASE pixels <= 921600 -> 3000
      [] pixels > 921600 /\ pixels <= 2073600 -> 6000
      [] pixels > 2073600 /\ pixels <= 3686400 -> 12000
      [] pixels > 3686400 -> 20000
ClaimedInputSize(m) == IF "file_size_mb" \in DOMAIN m THEN m.file_size_mb ELSE Rat(0, 1)

\* C24: with non-zero duration, width and height the estimate is
\* (bucket bitrate + 320) * duration / 8 / 1024 * 1.05, the bucket chosen by
\* width * height (<= 1280*720: 3000; <= 1920*1080: 6000; <= 2560*1440: 12000;
\* above: 20000); when one of the three is zero or missing it is
\* input_size_mb * 1.05. (Durations are in thousandths of a second.)
C24_Estimate ==
    EstimateReturned =>
        LET m == EstimateArg
            d == Field(m, "duration")
            w == Field(m, "width")
            h == Field(m, "height")
        IN  IF d # 0 /\ w # 0 /\ h # 0
            THEN RatEq(EstimateValue,
                       RatMul(RatMul(Rat((ClaimedBitrate(w * h) + 320) * d, 1000), Rat(1, 8 * 1024)),
                              Rat(105, 100)))
            ELSE RatEq(EstimateValue, RatMul(ClaimedInputSize(m), Rat(105, 100)))

\* C24's cases: an estimate at a bucket boundary (2560x1440, 10 s: 12320 kbps,
\* 15.79 MB), and the fallback for a missing width.
C24_Witness ==
    /\ EstimateReturned /\ oin.fn = "estimate_output_size"
    /\ Field(EstimateArg, "width") * Field(EstimateArg, "height") = 2560 * 1440
    /\ Field(EstimateArg, "duration") = 10000
    /\ RatEq(EstimateValue, Rat(12320 * 10 * 105, 8 * 1024 * 100))

C24_WitnessFallback ==
    /\ EstimateReturned /\ "width" \notin DOMAIN EstimateArg
    /\ Field(EstimateArg, "duration") # 0
    /\ RatEq(EstimateValue, Rat(105, 10))

Pixels(res) == res[1] * res[2]
NonZeroResolutions == { res \in Resolutions : Pixels(res) # 0 }
\* the estimate for resolution res at duration d
EstimateAt(d, res) == Norm(estimate_output_size(FullMetadata(d, res)))

\* C25: for a fixed positive duration the estimate depends on the resolution
\* through the pixel count only and does not decrease when the pixel count
\* grows; over resolutions from all four buckets it takes exactly four values.
C25_MonotoneSteps ==
    (EstimateReturned /\ Field(EstimateArg, "duration") # 0
        /\ Field(EstimateArg, "width") * Field(EstimateArg, "height") # 0) =>
        LET d == Field(EstimateArg, "duration")
            p == Field(EstimateArg, "width") * Field(EstimateArg, "height")
        IN  /\ \A res \in NonZeroResolutions :
                  /\ p <= Pixels(res) => RatLeq(Norm(EstimateValue), EstimateAt(d, res))
                  /\ Pixels(res) <= p => RatLeq(EstimateAt(d, res), Norm(EstimateValue))
            /\ Cardinality({ EstimateAt(d, res) : res \in NonZeroResolutions }) = 4

\* C25's case: an estimate in the top bucket was returned, above the one for
\* the bucket below it.
C25_Witness ==
    /\ EstimateReturned /\ Field(EstimateArg, "duration") = 2500
    /\ Field(EstimateArg, "width") * Field(EstimateArg, "height") = 3840 * 2160
    /\ ~RatLeq(Norm(EstimateValue), EstimateAt(2500, <<2560, 1440>>))

\* ================================================= get_output_filename
MaxSuffix == 2       \* largest number suffix among the names that may exist

\* config.OUTPUT_FORMAT
OUTPUT_FORMAT == ".mov"
\* Path(input_path).stem of the inputs
Stems == {"clip", "clip_1"}

\* as OutputName, numbering from counter + 1
OutputName_Skip(stem, counter) ==
    IF counter = 0 THEN stem \o OUTPUT_FORMAT
    ELSE stem \o "_" \o ToString(counter + 1) \o OUTPUT_FORMAT

\* lines 164 and 170: the name tried first (counter 0 here) and the name
\* tried with the counter
OutputName(stem, counter) ==
    IF counter = 0 THEN stem \o OUTPUT_FORMAT
    ELSE stem \o "_" \o ToString(counter) \o OUTPUT_FORMAT

\* names that may be in the output directory when the call is made: the
\* candidates of either stem, and a file that is none of them
NamePool == { OutputName(s, k) : s \in Stems, k \in 0 .. MaxSuffix } \cup { "clip.mp4" }

ReturnedPath(p) == [returned |-> "path", path |-> p]
Raised(x) == [returned |-> "raised", exc |-> x]

\* lines 160-168: config.get_output_directory() creates the directory (and
\* raises OSError when it cannot); the first candidate; counter = 1
ResolveBegin ==
    /\ opc = "resolve"
    /\ IF oin.mkdir
       THEN /\ oloc' = [output_name |-> OutputName(oin.stem, 0), counter |-> 1]
            /\ opc' = "exists"
            /\ UNCHANGED oret
       ELSE /\ oret' = Raised("OSError")
            /\ opc' = "returned"
            /\ UNCHANGED oloc
    /\ UNCHANGED oin
    /\ UNCHANGED <<bvars, wvars, pvars, uvars>>

\* lines 169-172: the candidate exists, the next one is built
ResolveNext ==
    /\ opc = "exists"
    /\ oloc.output_name \in oin.dir
    /\ oloc' = [output_name |-> OutputName(oin.stem, oloc.counter),
                counter |-> oloc.counter + 1]
    /\ UNCHANGED <<opc, oin, oret>>
    /\ UNCHANGED <<bvars, wvars, pvars, uvars>>

\* lines 169 and 174: the candidate does not exist, it is returned
ResolveReturn ==
    /\ opc = "exists"
    /\ oloc.output_name \notin oin.dir
    /\ oret' = ReturnedPath(oloc.output_name)
    /\ opc' = "returned"
    /\ UNCHANGED <<oin, oloc>>
    /\ UNCHANGED <<bvars, wvars, pvars, uvars>>

ResolveCalls ==
    { [fn |-> "get_output_filename", stem |-> s, dir |-> D, mkdir |-> ok] :
        s \in Stems, D \in SUBSET NamePool, ok \in BOOLEAN }

\* One call of get_output_filename, on some contents of the output directory.
InitPath ==
    /\ CoreIdle
    /\ oloc = NoCall /\ oret = NoCall
    /\ opc = "resolve" /\ oin \in ResolveCalls

NextPath == ResolveBegin \/ ResolveNext \/ ResolveReturn

SpecPath == InitPath /\ [][NextPath]_vars

\* the numbers k for which the candidate of the call's stem does not exist
ClaimedName(stem, k) ==
    IF k = 0 THEN stem \o ".mov" ELSE stem \o "_" \o ToString(k) \o ".mov"
FreeSuffixes == { k \in 0 .. (MaxSuffix + 1) : ClaimedName(oin.stem, k) \notin oin.dir }
PathReturned == opc = "returned" /\ oin.fn = "get_output_filename" /\ oret.returned = "path"

\* C26: the path get_output_filename returns is the first of stem.mov,
\* stem_1.mov, stem_2.mov, ... that is not in the output directory; it is
\* never a name that is there; and it depends on the input's stem and the
\* directory's contents only.
C26_FirstFreeName ==
    PathReturned =>
        /\ oret.path \notin oin.dir
        /\ \E k \in FreeSuffixes :
              /\ \A i \in FreeSuffixes : k <= i
              /\ oret.path = ClaimedName(oin.stem, k)

\* C26's case: clip.mov and clip_1.mov exist, clip_2.mov is returned although
\* a later candidate is free too.
C26_Witness ==
    /\ PathReturned /\ oin.stem = "clip"
    /\ {"clip.mov", "clip_1.mov"} \subseteq oin.dir /\ "clip_2.mov" \notin oin.dir
    /\ oret.path = "clip_2.mov"

\* ================================================== parse_ffmpeg_error
MaxPhrases == 2      \* most phrases in one diagnostic text

UpperCase == "ABCDEFGHIJKLMNOPQRSTUVWXYZ"
LowerCase == "abcdefghijklmnopqrstuvwxyz"
LowerChar(c) ==
    IF \E i \in 1 .. 26 : SubSeq(UpperCase, i, i) = c
    THEN LET i == CHOOSE i \in 1 .. 26 : SubSeq(UpperCase, i, i) = c
         IN  SubSeq(LowerCase, i, i)
    ELSE c

\* str.lower() (line 230), by halves
RECURSIVE Lower(_)
Lower(s) ==
    IF Len(s) <= 1 THEN LowerChar(s)
    ELSE LET h == Len(s) \div 2
         IN  Lower(SubSeq(s, 1, h)) \o Lower(SubSeq(s, h + 1, Len(s)))

\* error_output[:200], line 268
DetailLimit == 200
Take(s, n) == IF Len(s) <= n THEN s ELSE SubSeq(s, 1, n)

RECURSIVE Repeat(_, _)
\* n copies of s
Repeat(s, n) ==
    IF n = 0 THEN ""
    ELSE IF n = 1 THEN s
    ELSE Repeat(s, n \div 2) \o Repeat(s, n - (n \div 2))

\* the first line of each message (lines 232-262), and the fixed part of the
\* generic one (lines 265-268)
MsgFor(category) ==
    CASE category = "file-not-found" -> "File not found."
      [] category = "permission-denied" -> "Permission denied."
      [] category = "invalid-data" -> "Invalid or corrupted video file."
      [] category = "missing-codec" -> "Required video codec not available."
      [] category = "disk-full" -> "Not enough disk space."
      [] category = "out-of-memory" -> "Out of memory."
      [] category = "open-output-failed" -> "Cannot create output file."
      [] category = "timeout" -> "Conversion timeout."
Generic == "Video conversion failed. Technical details: "

\* as parse_ffmpeg_error, with the timeout test first
parse_ffmpeg_error_TimeoutFirst(error_output) ==
    LET error_lower == Lower(error_output) IN
    IF Contains(error_lower, "timeout") THEN MsgFor("timeout")
    ELSE IF Contains(error_lower, "no such file or directory") THEN MsgFor("file-not-found")
    ELSE IF Contains(error_lower, "permission denied") THEN MsgFor("permission-denied")
    ELSE IF Contains(error_lower, "invalid data") \/ Contains(error_lower, "invalid argument")
    THEN MsgFor("invalid-data")
    ELSE IF Contains(error_lower, "codec not found") \/ Contains(error_lower, "unknown encoder")
    THEN MsgFor("missing-codec")
    ELSE IF Contains(error_lower, "disk full") \/ Contains(error_lower, "no space left")
    THEN MsgFor("disk-full")
    ELSE IF Contains(error_lower, "out of memory") \/ Contains(error_lower, "cannot allocate memory")
    THEN MsgFor("out-of-memory")
    ELSE IF Contains(error_lower, "could not open") /\ Contains(error_lower, "output")
    THEN MsgFor("open-output-failed")
    ELSE Generic \o Take(error_output, DetailLimit)

\* validators.parse_ffmpeg_error (lines 220-268)
parse_ffmpeg_error(error_output) ==
    LET error_lower == Lower(error_output) IN
    IF Contains(error_lower, "no such file or directory") THEN MsgFor("file-not-found")
    ELSE IF Contains(error_lower, "permission denied") THEN MsgFor("permission-denied")
    ELSE IF Contains(error_lower, "invalid data") \/ Contains(error_lower, "invalid argument")
    THEN MsgFor("invalid-data")
    ELSE IF Contains(error_lower, "codec not found") \/ Contains(error_lower, "unknown encoder")
    THEN MsgFor("missing-codec")
    ELSE IF Contains(error_lower, "disk full") \/ Contains(error_lower, "no space left")
    THEN MsgFor("disk-full")
    ELSE IF Contains(error_lower, "out of memory") \/ Contains(error_lower, "cannot allocate memory")
    THEN MsgFor("out-of-memory")
    ELSE IF Contains(error_lower, "could not open") /\ Contains(error_lower, "output")
    THEN MsgFor("open-output-failed")
    ELSE IF Contains(error_lower, "timeout") THEN MsgFor("timeout")
    ELSE Generic \o Take(error_output, DetailLimit)

\* Pieces of diagnostic text, each with what it is about ("open" and "output"
\* make up open-output-failed together; "" is about none of the categories)
Phrase(t, c) == [txt |-> t, about |-> c]
Phrases ==
    { Phrase("in.mp4: No such file or directory", "file-not-found"),
      Phrase("out.mov: PERMISSION DENIED", "permission-denied"),
      Phrase("Invalid data found when processing input", "invalid-data"),
      Phrase("Invalid Argument", "invalid-data"),
      Phrase("Unknown encoder 'libx264'", "missing-codec"),
      Phrase("No space left on device", "disk-full"),
      Phrase("Cannot allocate memory", "out-of-memory"),
      Phrase("Could not open file", "open"),
      Phrase("Output #0, mov", "output"),
      Phrase("Conversion Timeout", "timeout"),
      Phrase("Conversion failed", ""),
      Phrase(Repeat("frame dropped ", 15), "") }

RECURSIVE JoinPhrases(_)
JoinPhrases(ps) ==
    IF ps = << >> THEN "" ELSE Head(ps).txt \o "\n" \o JoinPhrases(Tail(ps))

ErrorCalls ==
    { [fn |-> "parse_ffmpeg_error", phrases |-> ps, error |-> JoinPhrases(ps)] :
        ps \in SeqsUpTo(Phrases, MaxPhrases) }

ParseFfmpegError ==
    /\ opc = "classify"
    /\ oret' = ReturnedValue(parse_ffmpeg_error(oin.error))
    /\ opc' = "returned"
    /\ UNCHANGED <<oin, oloc>>
    /\ UNCHANGED <<bvars, wvars, pvars, uvars>>

\* One call of parse_ffmpeg_error on some diagnostic text.
InitErrMsg ==
    /\ CoreIdle
    /\ oloc = NoCall /\ oret = NoCall
    /\ opc = "classify" /\ oin \in ErrorCalls

NextErrMsg == ParseFfmpegError

SpecErrMsg == InitErrMsg /\ [][NextErrMsg]_vars

\* --------------------------------------------------------------- C27
Categories == << "file-not-found", "permission-denied", "invalid-data", "missing-codec",
                 "disk-full", "out-of-memory", "open-output-failed", "timeout" >>
About == { oin.phrases[k].about : k \in 1 .. Len(oin.phrases) }
\* the text is about category c
Matches(c) == IF c = "open-output-failed" THEN {"open", "output"} \subseteq About ELSE c \in About
Classified == opc = "returned" /\ oin.fn = "parse_ffmpeg_error"

\* C27: the message returned is that of the first category, in the order
\* file-not-found, permission-denied, invalid-data, missing-codec, disk-full,
\* out-of-memory, open-output-failed, timeout, that the text is about,
\* whatever the letters' case and wherever in the text the phrase stands; a
\* text about none of them gives the generic message followed by the first
\* 200 characters of the text (all of it when it is shorter).
C27_Classification ==
    Classified =>
        IF \E i \in 1 .. 8 : Matches(Categories[i])
        THEN LET i == CHOOSE i \in 1 .. 8 :
                          Matches(Categories[i]) /\ \A k \in 1 .. (i - 1) : ~Matches(Categories[k])
             IN  oret.value = MsgFor(Categories[i])
        ELSE /\ Len(oret.value) <= Len(Generic) + 200
             /\ oret.value = Generic \o SubSeq(oin.error, 1, IF Len(oin.error) < 200
                                                              THEN Len(oin.error) ELSE 200)

\* C27's cases: a text about two categories, the later one standing first in
\* the text, got the earlier category's message; (second witness) a long text
\* about none was cut at 200 characters.
C27_Witness ==
    /\ Classified /\ Len(oin.phrases) = 2
    /\ oin.phrases[1].about = "timeout" /\ oin.phrases[2].about = "permission-denied"
    /\ oret.value = "Permission denied."

C27_WitnessTruncated ==
    /\ Classified /\ Len(oin.error) > 200
    /\ Len(oret.value) = Len(Generic) + 200

\* ============================================================== Config
\* utils/config.py. The Config object is oloc; oin is the last call of
\* get_ffmpeg_command_args and oret the argument vector it returned.
QUALITY_PRESETS ==
    [ fast     |-> [preset |-> "faster", crf |-> 23, tune |-> "fastdecode", gop |-> 1],
      balanced |-> [preset |-> "medium", crf |-> 20, tune |-> "fastdecode", gop |-> 1],
      high     |-> [preset |-> "slow", crf |-> 17, tune |-> "fastdecode", gop |-> 1],
      gpu_fast |-> [preset |-> "p4", crf |-> 23] ]

HARDWARE_ACCELERATION ==
    [ nvenc |-> [encoder |-> "h264_nvenc"],
      vaapi |-> [encoder |-> "h264_vaapi"],
      none  |-> [encoder |-> "libx264"] ]

DEFAULT_VIDEO_CODEC == "libx264"
DEFAULT_AUDIO_CODEC == "aac"
DEFAULT_AUDIO_BITRATE == "320k"
FFMPEG_BINARY == "ffmpeg"

\* hardware_accel before detection (Python's None)
Undetected == "undetected"

\* Config.__init__, lines 104-121
NewConfig ==
    [ current_preset |-> "high", custom_crf |-> None, custom_preset |-> None,
      hardware_accel |-> Undetected, use_gpu |-> FALSE ]

\* x or y, for an x that is None or a number
OrElse(x, y) == IF x = None \/ x = 0 THEN y ELSE x

\* preset_name left out (Python's None)
CurrentPreset == "None"

\* get_preset_settings, lines 131-157 (custom_preset is never assigned anything
\* but None)
get_preset_settings(cfg, preset_name) ==
    LET name == IF preset_name = CurrentPreset THEN cfg.current_preset ELSE preset_name
        preset == Get(QUALITY_PRESETS, name, QUALITY_PRESETS["high"])
    IN
    [ video_codec |-> DEFAULT_VIDEO_CODEC,
      preset |-> IF cfg.custom_preset = None THEN preset.preset ELSE cfg.custom_preset,
      crf |-> OrElse(cfg.custom_crf, preset.crf),
      audio_codec |-> DEFAULT_AUDIO_CODEC,
      audio_bitrate |-> DEFAULT_AUDIO_BITRATE ]

\* detect_hardware_acceleration, lines 174-197: what the installed ffmpeg lists
Detectable == {"nvenc", "vaapi", "none"}

\* lines 218-222
Encoder(cfg, settings) ==
    IF cfg.use_gpu /\ cfg.hardware_accel # "none"
    THEN HARDWARE_ACCELERATION[cfg.hardware_accel].encoder
    ELSE settings.video_codec

\* as QualityArgs, giving every encoder libx264's arguments
QualityArgs_AlwaysCrf(encoder, settings, preset_config) ==
    <<"-crf", ToString(settings.crf)>>
    \o (IF "tune" \in DOMAIN preset_config THEN <<"-tune", preset_config.tune>> ELSE << >>)
    \o (IF "gop" \in DOMAIN preset_config THEN <<"-g", ToString(preset_config.gop)>> ELSE << >>)
    \o <<"-pix_fmt", "yuv420p">>

\* lines 231-245
QualityArgs(encoder, settings, preset_config) ==
    IF encoder = "libx264"
    THEN <<"-crf", ToString(settings.crf)>>
         \o (IF "tune" \in DOMAIN preset_config THEN <<"-tune", preset_config.tune>> ELSE << >>)
         \o (IF "gop" \in DOMAIN preset_config THEN <<"-g", ToString(preset_config.gop)>> ELSE << >>)
         \o <<"-pix_fmt", "yuv420p">>
    ELSE IF encoder = "h264_nvenc"
    THEN <<"-cq", ToString(settings.crf), "-rc", "vbr">>
    ELSE IF encoder = "h264_vaapi"
    THEN <<"-qp", ToString(settings.crf)>>
    ELSE << >>

\* lines 211-256, for a Config whose hardware_accel is set
CommandArgs(cfg, input_file, output_file) ==
    LET settings == get_preset_settings(cfg, CurrentPreset)
        preset_config == Get(QUALITY_PRESETS, cfg.current_preset, QUALITY_PRESETS["high"])
        encoder == Encoder(cfg, settings)
    IN  <<FFMPEG_BINARY, "-i", input_file, "-c:v", encoder, "-preset", settings.preset>>
        \o QualityArgs(encoder, settings, preset_config)
        \o <<"-c:a", settings.audio_codec, "-b:a", settings.audio_bitrate,
             "-movflags", "+faststart", "-progress", "pipe:1", "-y", output_file>>

\* what the settings dialog and other callers pass
PresetNames == {"fast", "balanced", "high", "gpu_fast", "ultra"}
CrfInputs == {0, 1, 18, 51, 52}
InputFiles == {"/videos/clip.mp4", "-crf.mp4"}
OutputFiles == {"/videos/Converted/clip.mov", "-qp.mov"}

\* set_quality_preset, lines 159-162
set_quality_preset ==
    /\ opc = "config"
    /\ \E preset_name \in PresetNames :
          /\ oloc' = IF preset_name \in DOMAIN QUALITY_PRESETS
                     THEN [oloc EXCEPT !.current_preset = preset_name]
                     ELSE oloc
          /\ oin' = [fn |-> "set_quality_preset", preset_name |-> preset_name]
    /\ UNCHANGED <<opc, oret>>
    /\ UNCHANGED <<bvars, wvars, pvars, uvars>>

\* set_custom_crf, lines 164-167
set_custom_crf ==
    /\ opc = "config"
    /\ \E crf \in CrfInputs :
          /\ oloc' = IF 0 <= crf /\ crf <= 51 THEN [oloc EXCEPT !.custom_crf = crf] ELSE oloc
          /\ oin' = [fn |-> "set_custom_crf", crf |-> crf]
    /\ UNCHANGED <<opc, oret>>
    /\ UNCHANGED <<bvars, wvars, pvars, uvars>>

\* reset_custom_settings, lines 169-172
reset_custom_settings ==
    /\ opc = "config"
    /\ oloc' = [oloc EXCEPT !.custom_crf = None, !.custom_preset = None]
    /\ oin' = [fn |-> "reset_custom_settings"]
    /\ UNCHANGED <<opc, oret>>
    /\ UNCHANGED <<bvars, wvars, pvars, uvars>>

\* settings_dialog.py line 330: config.use_gpu = checkbox state
SetUseGpu ==
    /\ opc = "config"
    /\ \E checked \in BOOLEAN :
          /\ oloc' = [oloc EXCEPT !.use_gpu = checked]
          /\ oin' = [fn |-> "use_gpu", checked |-> checked]
    /\ UNCHANGED <<opc, oret>>
    /\ UNCHANGED <<bvars, wvars, pvars, uvars>>

\* get_ffmpeg_command_args, lines 199-256: detects the acceleration on first
\* use and keeps it
get_ffmpeg_command_args ==
    /\ opc = "config"
    /\ \E input_file \in InputFiles, output_file \in OutputFiles, detected \in Detectable :
          LET cfg == IF oloc.hardware_accel = Undetected
                     THEN [oloc EXCEPT !.hardware_accel = detected]
                     ELSE oloc
          IN  /\ oloc' = cfg
              /\ oin' = [fn |-> "get_ffmpeg_command_args",
                         input_file |-> input_file, output_file |-> output_file]
              /\ oret' = ReturnedValue(CommandArgs(cfg, input_file, output_file))
    /\ UNCHANGED opc
    /\ UNCHANGED <<bvars, wvars, pvars, uvars>>

\* get_preset_settings called on its own, lines 135-157
GetPresetSettings ==
    /\ opc = "config"
    /\ \E preset_name \in PresetNames \cup {CurrentPreset} :
          /\ oin' = [fn |-> "get_preset_settings", preset_name |-> preset_name]
          /\ oret' = [returned |-> "settings",
                      settings |-> get_preset_settings(oloc, preset_name)]
    /\ UNCHANGED <<opc, oloc>>
    /\ UNCHANGED <<bvars, wvars, pvars, uvars>>

\* A Config object from its construction on, under any calls of its methods.
InitConfig ==
    /\ CoreIdle
    /\ opc = "config" /\ oloc = NewConfig
    /\ oin = NoCall /\ oret = NoCall

NextConfig ==
    \/ set_quality_preset
    \/ set_custom_crf
    \/ reset_custom_settings
    \/ SetUseGpu
    \/ GetPresetSettings
    \/ get_ffmpeg_command_args

SpecConfig == InitConfig /\ [][NextConfig]_vars

\* --------------------------------------------------------------- C28
ArgsReturned == opc = "config" /\ oin # NoCall /\ oin.fn = "get_ffmpeg_command_args"
Positions(cmd, arg) == { k \in 1 .. Len(cmd) : cmd[k] = arg }
QualityFlags == {"-crf", "-cq", "-qp"}
\* the family named after -c:v
Family(cmd) == cmd[(CHOOSE k \in Positions(cmd, "-c:v") : TRUE) + 1]

\* C28: in every state a Config can reach by its methods, the vector
\* get_ffmpeg_command_args returns has exactly one of -crf, -cq, -qp, and it is
\* -crf exactly for libx264, -cq exactly for h264_nvenc, -qp exactly for
\* h264_vaapi; it has -progress followed by pipe:1; its last element is the
\* output path.
C28_CommandArgs ==
    ArgsReturned =>
        LET cmd == oret.value IN
        /\ Cardinality(UNION { Positions(cmd, q) : q \in QualityFlags }) = 1
        /\ Cardinality(Positions(cmd, "-c:v")) = 1
        /\ (Positions(cmd, "-crf") # {}) <=> (Family(cmd) = "libx264")
        /\ (Positions(cmd, "-cq") # {}) <=> (Family(cmd) = "h264_nvenc")
        /\ (Positions(cmd, "-qp") # {}) <=> (Family(cmd) = "h264_vaapi")
        /\ \E k \in Positions(cmd, "-progress") : k < Len(cmd) /\ cmd[k + 1] = "pipe:1"
        /\ cmd[Len(cmd)] = oin.output_file

\* C28's case: with the GPU enabled, a custom CRF set and NVENC detected, the
\* vector carries -cq with that value and no -crf.
C28_Witness ==
    /\ ArgsReturned
    /\ oloc.use_gpu /\ oloc.hardware_accel = "nvenc" /\ oloc.custom_crf = 18
    /\ oloc.current_preset = "gpu_fast"
    /\ \E k \in Positions(oret.value, "-cq") : oret.value[k + 1] = "18"
    /\ Positions(oret.value, "-crf") = {}

\* ---------------------------------------------- encoder lifetime (SpecCV)
\* C29 as claimed: once convert_video has returned, from whichever return
\* statement, the encoder subprocess it launched has exited.
C29_Original ==
    \A j \in Jobs : (Resolved(j) /\ launches[j] = 1) => proc[j] = "exited"

\* What does hold: a call that returned from line 144, 207 or 216 left no
\* encoder behind; only the handler of lines 223-227 returns beside a live one.
C29_NormalReturns ==
    \A j \in Jobs :
        (Resolved(j) /\ launches[j] = 1 /\ cvsite[j] \in {144, 207, 216}) => proc[j] = "exited"

\* ------------------------------------------------- cancellation (SpecLive)
\* Fair scheduling of the batch of SpecFwd: the sequencer thread, the thread
\* inside cancel() and every worker thread take the steps they can take, and
\* a process that was sent SIGKILL ends. Nothing obliges the host to cancel
\* or the encoder to write, close its stdout or exit on its own.
FairBatch ==
    /\ WF_vars(BatchLoop)
    /\ WF_vars(BatchFileStarted)
    /\ WF_vars(BatchCreateWorker)
    /\ WF_vars(BatchStartWorker)
    /\ WF_vars(BatchDeliver)
    /\ WF_vars(BatchPostCheck)
    /\ WF_vars(BatchEmitResult)
    /\ WF_vars(CancelCheckWorker)
    /\ WF_vars(CancelWorker)
    /\ WF_vars(CancelWait)
    /\ \A j \in Jobs :
          /\ WF_vars(CvLaunch(j, BatchProbes))
          /\ WF_vars(CvReadLine(j))
          /\ WF_vars(CvLine(j))
          /\ WF_vars(CvEndOfStream(j))
          /\ WF_vars(CvWaitExit(j))
          /\ WF_vars(CvWaitTerminated(j))
          /\ WF_vars(CvWaitTimeout(j))
          /\ WF_vars(CvWaitKilled(j))
          /\ WF_vars(WorkerFinish(j))
          /\ WF_vars(killSent[j] /\ EncExit(j, BatchExitCodes))

SpecLive == InitFwd /\ [][NextFwd]_vars /\ FairBatch

\* cancel() was called while the sequencer was in job j's event loop (line 173)
\* and has not returned, and job j's encoder is running
CancelledWhileRunning(j) ==
    /\ upc # "idle" /\ request # NoRequest
    /\ request.bpc = "exec" /\ request.index = j
    /\ Alive(j)

\* C30 as claimed: a cancel request issued while a job is running is
\* eventually followed by the end of that job's encoder, the return of
\* cancel() and the emission of batch_cancelled.
C30_Original ==
    \A j \in Jobs :
        CancelledWhileRunning(j) ~>
            (~Alive(j) /\ upc = "idle" /\ Count("batch_cancelled") = 1)

\* The same batch with an encoder that, left alone, closes its stdout and
\* exits: under it the formula of C30 holds.
FairEncoder == \A j \in Jobs : WF_vars(EncClose(j)) /\ WF_vars(EncExit(j, BatchExitCodes))
SpecLiveEncoder == InitFwd /\ [][NextFwd]_vars /\ FairBatch /\ FairEncoder

\* ------------------------------------------------ after cancel() (Spec)
\* some call of cancel() has returned
CancelReturned == b_is_cancelled /\ upc = "idle"

\* C31 as claimed: once cancel() has returned, the batch starts no worker and
\* launches no encoder subprocess.
C31_Original ==
    [][CancelReturned =>
          \A j \in Jobs : /\ wrun'[j] => wrun[j]
                          /\ launches'[j] <= launches[j]]_vars

\* What does hold: after cancel() has returned, only the job whose iteration
\* had begun when cancel() was first called can still be started.
C31_OnlyInFlightJob ==
    [][CancelReturned =>
          \A j \in Jobs : (wrun'[j] /\ ~wrun[j]) \/ launches'[j] > launches[j]
                              => j = request.index /\ request.bpc \in {"started", "create", "start"}]_vars

\* ------------------------------------------- cancel against result (SpecCV)
LastSignal(j) == wsignals[j][Len(wsignals[j])]

\* C32: a cancel flag that is set when convert_video has returned stays set
\* until run() tests it (line 64), and run() then emits conversion_cancelled
\* whatever convert_video returned; a worker that emitted conversion_cancelled
\* has emitted neither conversion_finished nor conversion_failed.
C32_CancelFirst ==
    /\ [](\A j \in Jobs :
            (wpc[j] = "done" /\ LastSignal(j) = "conversion_cancelled") =>
                \A k \in 1 .. Len(wsignals[j]) :
                    wsignals[j][k] \notin {"conversion_finished", "conversion_failed"})
    /\ [][\A j \in Jobs :
            /\ (wpc[j] = "after" /\ w_is_cancelled[j]) => w_is_cancelled'[j]
            /\ (wpc[j] = "after" /\ wpc'[j] = "done" /\ w_is_cancelled[j]) =>
                  wsignals'[j] = Append(wsignals[j], "conversion_cancelled")]_vars

\* C32's case: the encoder exited with code 0 and convert_video returned True
\* from line 207, the flag was set meanwhile, and the worker reported the
\* cancellation.
C32_Witness ==
    /\ wpc[0] = "done" /\ w_is_cancelled[0]
    /\ cvret[0] = "True" /\ cvsite[0] = 207 /\ rc[0] = 0
    /\ LastSignal(0) = "conversion_cancelled"

\* ------------------------------------------------ terminal event (Spec)
TerminalEvents == {"all_finished", "batch_cancelled"}

\* C33: all_finished or batch_cancelled, once emitted, is the last event of
\* the batch: no file_started, progress_updated, file_finished or file_failed
\* (nor a second terminal event) follows it, and run() has ended, so that
\* nothing queued for it is delivered any more.
C33_TerminalLast ==
    /\ \A k \in EventIdx : events[k].e \in TerminalEvents => k = Len(events)
    /\ (\E k \in EventIdx : events[k].e \in TerminalEvents) => bpc = "done"

\* C33's case: cancel() was called during a job, progress the worker had
\* queued was still forwarded, and batch_cancelled came after it, last.
C33_Witness ==
    /\ Len(events) >= 3
    /\ request # NoRequest /\ request.bpc = "exec"
    /\ LastEvent.e = "batch_cancelled"
    /\ events[Len(events) - 1].e = "progress_updated"

\* ------------------------------------------------ per-job outcome (Spec)
\* the step emits a result event
EmitsResult == Len(events') = Len(events) + 1 /\ events'[Len(events')].e \in {"file_finished", "file_failed"}

\* C34: success and error_message are reset when a job's worker is created;
\* the signals waiting for the sequencer are those of the current job's worker
\* only, and none is waiting when an iteration begins; until the current
\* worker has ended the flag is as reset; and the result event emitted is for
\* the current job, file_finished exactly when that job's convert_video
\* returned True.
C34_OwnResult ==
    /\ [](/\ \A k \in 1 .. Len(bqueue) : bqueue[k].job = current_worker
          /\ bpc \in {"loop", "started", "create", "start"} => bqueue = << >>
          /\ bpc = "start" => (~success /\ error_message = "")
          /\ (bpc = "exec" /\ wpc[current_worker] # "done") => ~success)
    /\ [][EmitsResult =>
            LET ev == events'[Len(events')] IN
            /\ ev.i = index /\ current_worker = index
            /\ wpc[index] = "done"
            /\ ev.e = "file_finished" <=> cvret[index] = "True"]_vars

\* C34's case: job 0 succeeded and job 1, right after it, failed, and each was
\* reported as it went.
C34_Witness ==
    /\ \E k \in EventIdx : events[k].e = "file_finished" /\ events[k].i = 0
    /\ LastEvent.e = "file_failed" /\ LastEvent.i = 1
    /\ bpc = "loop" /\ cvret[1] = "False"

\* ============================================== output paths of a batch
\* BatchConversionManager.run with the output directory: oin is the batch
\* (file_list by stems, the directory's contents when it starts), oloc the
\* sequencer's position (index, the directory now, the candidate and counter
\* of get_output_filename, and for each job begun its output_file and how it
\* ended).

\* as Exists, looking at the directory as it was when the batch started
Exists_AtStart(name) == name \in oin.dir

\* validators.py line 169: output_path.exists()
Exists(name) == name \in oloc.dir

Outcomes == {"finished", "failed", "cancelled"}

\* lines 148 and 158, with validators.py 160-168: the next input's first
\* candidate; or the list is exhausted
OutBegin ==
    /\ opc = "loop"
    /\ IF oloc.index >= Len(oin.file_list)
       THEN /\ opc' = "done"
            /\ UNCHANGED oloc
       ELSE /\ opc' = "exists"
            /\ oloc' = [oloc EXCEPT !.output_name = OutputName(oin.file_list[oloc.index + 1], 0),
                                    !.counter = 1]
    /\ UNCHANGED <<oin, oret>>
    /\ UNCHANGED <<bvars, wvars, pvars, uvars>>

\* validators.py lines 169-172
OutNext ==
    /\ opc = "exists"
    /\ Exists(oloc.output_name)
    /\ oloc' = [oloc EXCEPT !.output_name = OutputName(oin.file_list[oloc.index + 1], oloc.counter),
                            !.counter = oloc.counter + 1]
    /\ UNCHANGED <<opc, oin, oret>>
    /\ UNCHANGED <<bvars, wvars, pvars, uvars>>

\* validators.py line 174 and conversion_worker.py line 161: the worker is
\* given the path
OutReturn ==
    /\ opc = "exists"
    /\ ~Exists(oloc.output_name)
    /\ oloc' = [oloc EXCEPT !.jobs = Append(@, [output_file |-> oloc.output_name,
                                                 outcome |-> "running"])]
    /\ opc' = "convert"
    /\ UNCHANGED <<oin, oret>>
    /\ UNCHANGED <<bvars, wvars, pvars, uvars>>

\* lines 196-209 with config.py line 253 (-y output_file): the encoder writes
\* output_file, replacing what is there; a job that finished has written it,
\* a job that failed or was cancelled may have left a partial file; after a
\* cancelled job run() returns (lines 201-204)
OutConvert ==
    /\ opc = "convert"
    /\ \E outcome \in Outcomes, partial \in BOOLEAN :
          LET n == Len(oloc.jobs)
              output_file == oloc.jobs[n].output_file
          IN  /\ outcome = "finished" => partial
              /\ oloc' = [oloc EXCEPT !.jobs[n].outcome = outcome,
                                      !.dir = IF partial THEN @ \cup {output_file} ELSE @,
                                      !.index = @ + 1]
              /\ oret' = [oret EXCEPT !.overwritten =
                             @ \cup { a \in 1 .. (n - 1) :
                                        /\ oloc.jobs[a].outcome = "finished"
                                        /\ oloc.jobs[a].output_file = output_file }]
              /\ opc' = IF outcome = "cancelled" THEN "done" ELSE "loop"
    /\ UNCHANGED oin
    /\ UNCHANGED <<bvars, wvars, pvars, uvars>>

Batches ==
    { [fn |-> "batch", file_list |-> fl, dir |-> D] :
        fl \in SeqsUpTo(Stems, MaxFiles), D \in SUBSET NamePool }

\* A batch over some inputs, started on some contents of the output directory.
InitOut ==
    /\ CoreIdle
    /\ opc = "loop" /\ oin \in Batches
    /\ oloc = [index |-> 0, dir |-> oin.dir, output_name |-> "", counter |-> 0, jobs |-> << >>]
    /\ oret = [overwritten |-> {}]

NextOut == OutBegin \/ OutNext \/ OutReturn \/ OutConvert

SpecOut == InitOut /\ [][NextOut]_vars

\* --------------------------------------------------------------- C35
\* C35: a job is never given the output path of an earlier job of the batch
\* that finished; so no finished job's output is overwritten by a later
\* encoder, and it is still in the directory; in particular two inputs with
\* the same stem get different paths.
C35_DistinctOutputs ==
    (oin.fn = "batch") =>
        /\ \A a, b \in 1 .. Len(oloc.jobs) :
              (a < b /\ oloc.jobs[a].outcome = "finished") =>
                  oloc.jobs[b].output_file # oloc.jobs[a].output_file
        /\ oret.overwritten = {}
        /\ \A a \in 1 .. Len(oloc.jobs) :
              oloc.jobs[a].outcome = "finished" => oloc.jobs[a].output_file \in oloc.dir

\* C35's case: two inputs with the same stem, the first finished as clip.mov,
\* the second was given clip_1.mov.
C35_Witness ==
    /\ oin.fn = "batch" /\ oin.file_list = <<"clip", "clip">> /\ oin.dir = {}
    /\ Len(oloc.jobs) = 2
    /\ oloc.jobs[1] = [output_file |-> "clip.mov", outcome |-> "finished"]
    /\ oloc.jobs[2].output_file = "clip_1.mov"

\* --------------------------------------------------------------- C36
\* the step is a call of Config method fn
ConfigCall(fn) == oin' # NoCall /\ oin'.fn = fn /\ <<oin, oloc, oret>>' # <<oin, oloc, oret>>

\* C36 as claimed: set_custom_crf(c) stores c when 0 <= c <= 51 and changes
\* nothing otherwise; and while a custom CRF is stored, get_preset_settings
\* returns it as crf, for whichever preset.
C36_Original ==
    [][/\ ConfigCall("set_custom_crf") =>
             oloc'.custom_crf = IF 0 <= oin'.crf /\ oin'.crf <= 51 THEN oin'.crf
                                ELSE oloc.custom_crf
       /\ (ConfigCall("get_preset_settings") /\ oloc.custom_crf # None) =>
             oret'.settings.crf = oloc.custom_crf]_vars

\* What does hold: the same for a custom CRF other than 0.
C36_NonZero ==
    [][/\ ConfigCall("set_custom_crf") =>
             oloc'.custom_crf = IF 0 <= oin'.crf /\ oin'.crf <= 51 THEN oin'.crf
                                ELSE oloc.custom_crf
       /\ (ConfigCall("get_preset_settings") /\ oloc.custom_crf \notin {None, 0}) =>
             oret'.settings.crf = oloc.custom_crf]_vars

\* ================================================================ host
\* ui/main_window.py, ui/progress_widget.py, ui/file_list_widget.py: the
\* handlers the host connects to the batch's signals (main_window.py lines
\* 214-219). The batch is taken by what it emits: oin is the queue of input
\* files, opc and oret the position of run() and the signals waiting for the
\* UI thread, oloc the window (the progress widget, each file's status, the
\* message box shown last, and the progress records handled for the file
\* being converted).
MaxProgress == 2     \* most progress signals of one job

HostFileLists == { <<"a.mp4">>, <<"a.mp4", "b.mp4">> }

\* progress records as ProcessLine makes them: a bitrate of 2400 or 5130
\* kbits/s, a speed of 1.5x, an elapsed time of 5 s out of 10
HostProgress ==
    { [bitrate_mbps |-> Rat(2400000, 1000 * 1000)],
      [bitrate_mbps |-> Rat(5130000, 1000 * 1000)],
      [speed |-> Rat(1500, 1000)],
      OutTimeData(5000000, 10) }

\* f"{x:.1f}" and f"{x:.2f}" for a float x >= 0 that is not half-way between
\* two results
RECURSIVE Pow10(_)
Pow10(n) == IF n = 0 THEN 1 ELSE 10 * Pow10(n - 1)
Digits(n, width) ==
    IF width = 2 /\ n < 10 THEN "0" \o ToString(n) ELSE ToString(n)
FormatFixed(x, places) ==
    LET scaled == (2 * Pow10(places) * x[1] + x[2]) \div (2 * x[2])
    IN  ToString(scaled \div Pow10(places)) \o "." \o Digits(scaled % Pow10(places), places)

\* Python's None where a float may stand
NoFloat == << >>

\* ProgressWidget.__init__ and _setup_ui, lines 19-62
NewProgressWidget ==
    [ current_progress |-> 0, last_bitrate_mbps |-> NoFloat,
      current_file_label |-> "Ready", progress_bar |-> 0,
      time_label |-> "", speed_label |-> "", started |-> FALSE ]

\* as start_conversion, keeping the last bitrate
start_conversion_KeepBitrate(w, file_name) ==
    [ w EXCEPT !.started = TRUE, !.current_progress = 0,
               !.current_file_label = "Converting: " \o file_name,
               !.progress_bar = 0, !.time_label = "Starting...", !.speed_label = "" ]

\* ProgressWidget.start_conversion, lines 64-80
start_conversion(w, file_name) ==
    [ w EXCEPT !.started = TRUE, !.current_progress = 0, !.last_bitrate_mbps = NoFloat,
               !.current_file_label = "Converting: " \o file_name,
               !.progress_bar = 0, !.time_label = "Starting...", !.speed_label = "" ]

\* ProgressWidget.update_progress, lines 82-124 (the times shown depend on the
\* clock: only which form the time label takes is kept)
update_progress(w, progress_data) ==
    LET progress == IF "progress" \in DOMAIN progress_data
                    THEN progress_data.progress[1] \div progress_data.progress[2]
                    ELSE w.current_progress
        bitrate == IF "bitrate_mbps" \in DOMAIN progress_data
                   THEN progress_data.bitrate_mbps
                   ELSE w.last_bitrate_mbps
    IN  [ w EXCEPT !.current_progress = progress,
                   !.progress_bar = IF "progress" \in DOMAIN progress_data THEN progress ELSE @,
                   !.last_bitrate_mbps = bitrate,
                   !.speed_label =
                       IF bitrate # NoFloat THEN FormatFixed(bitrate, 1) \o " Mbps"
                       ELSE IF "speed" \in DOMAIN progress_data
                       THEN "Speed: " \o FormatFixed(progress_data.speed, 2) \o "x"
                       ELSE @,
                   !.time_label =
                       IF w.started /\ progress > 0
                       THEN IF progress > 5 THEN "Time: elapsed / remaining" ELSE "Time: elapsed"
                       ELSE @ ]

\* ProgressWidget.finish_conversion, lines 129-153
finish_conversion(w, ok) ==
    IF ok
    THEN [ w EXCEPT !.progress_bar = 100, !.current_file_label = "Conversion completed!",
                    !.time_label = IF w.started THEN "Completed in elapsed" ELSE "Completed",
                    !.speed_label = "" ]
    ELSE [ w EXCEPT !.current_file_label = "Conversion failed",
                    !.time_label = "", !.speed_label = "" ]

\* ProgressWidget.reset, lines 155-166
reset(w) ==
    [ w EXCEPT !.started = FALSE, !.current_progress = 0, !.last_bitrate_mbps = NoFloat,
               !.current_file_label = "Ready", !.progress_bar = 0,
               !.time_label = "", !.speed_label = "" ]

\* FileListWidget.update_file_status, lines 207-237, on the statuses by path
update_file_status(statuses, file_path, status) ==
    IF file_path \notin DOMAIN statuses THEN statuses
    ELSE [statuses EXCEPT ![file_path] = status]

\* _on_file_finished, lines 265-268: the file its loop stops at
FirstQueued(file_list, idx) == file_list[1]

\* a signal of the batch is queued for the UI thread
Send(ev) == [oret EXCEPT !.queue = Append(@, ev)]
InputFile(i) == oin.file_list[i + 1]

\* conversion_worker.py lines 148-155 and 211-212, by what run() emits: the
\* list is exhausted; or the cancel flag is set; or the next file is started
RunLoop ==
    /\ opc = "loop"
    /\ IF oret.index >= Len(oin.file_list)
       THEN /\ oret' = Send(Ev("all_finished", None))
            /\ opc' = "done"
       ELSE \/ /\ oret' = Send(Ev("batch_cancelled", None))
               /\ opc' = "done"
            \/ /\ oret' = [Send(EvD("file_started", oret.index,
                                    [input_file |-> InputFile(oret.index)]))
                             EXCEPT !.sent = 0]
               /\ opc' = "job"
    /\ UNCHANGED <<oin, oloc>>
    /\ UNCHANGED <<bvars, wvars, pvars, uvars>>

\* lines 158 and 214-215: get_output_filename raises, run() ends silently
RunRaise ==
    /\ opc = "job" /\ oret.sent = 0
    /\ opc' = "done"
    /\ UNCHANGED <<oin, oloc, oret>>
    /\ UNCHANGED <<bvars, wvars, pvars, uvars>>

\* lines 187-189 inside loop.exec(): forward_progress
RunProgress ==
    /\ opc = "job" /\ oret.sent < MaxProgress
    /\ \E d \in HostProgress :
          oret' = [Send(EvD("progress_updated", oret.index, d)) EXCEPT !.sent = @ + 1]
    /\ UNCHANGED <<opc, oin, oloc>>
    /\ UNCHANGED <<bvars, wvars, pvars, uvars>>

\* lines 201-209: the worker has ended; batch_cancelled and return, or the
\* job's result and the next iteration
RunResult ==
    /\ opc = "job"
    /\ \/ /\ oret' = Send(Ev("batch_cancelled", None))
          /\ opc' = "done"
       \/ /\ \E e \in {"file_finished", "file_failed"} :
                oret' = [Send(EvD(e, oret.index, [input_file |-> InputFile(oret.index)]))
                           EXCEPT !.index = @ + 1, !.results = Append(@, e)]
          /\ opc' = "loop"
    /\ UNCHANGED <<oin, oloc>>
    /\ UNCHANGED <<bvars, wvars, pvars, uvars>>

\* the UI thread takes the next queued signal, of kind e, to its slot
Takes(e) ==
    /\ oret.queue # << >> /\ Head(oret.queue).e = e
    /\ oret' = [oret EXCEPT !.queue = Tail(@)]
    /\ UNCHANGED <<opc, oin>>
    /\ UNCHANGED <<bvars, wvars, pvars, uvars>>

\* main_window.py lines 241-254
_on_file_started ==
    /\ Takes("file_started")
    /\ LET ev == Head(oret.queue) IN
       oloc' = [oloc EXCEPT
                  !.progress_widget = start_conversion(@, ev.d.input_file),
                  !.statuses = update_file_status(@, ev.d.input_file, "processing"),
                  !.job_progress = << >>]

\* main_window.py lines 256-275
_on_file_finished ==
    /\ Takes("file_finished")
    /\ LET ev == Head(oret.queue) IN
       oloc' = [oloc EXCEPT
                  !.statuses = IF oloc.file_list = << >> THEN @
                               ELSE update_file_status(@, FirstQueued(oloc.file_list, ev.i),
                                                       "completed"),
                  !.progress_widget = finish_conversion(@, TRUE)]

\* main_window.py lines 277-299
_on_file_failed ==
    /\ Takes("file_failed")
    /\ LET ev == Head(oret.queue) IN
       oloc' = [oloc EXCEPT
                  !.statuses = update_file_status(@, ev.d.input_file, "failed"),
                  !.progress_widget = finish_conversion(@, FALSE),
                  !.message_box = "Conversion Failed"]

\* main_window.py lines 301-310
_on_progress_updated ==
    /\ Takes("progress_updated")
    /\ LET ev == Head(oret.queue) IN
       oloc' = [oloc EXCEPT
                  !.progress_widget = update_progress(@, ev.d),
                  !.job_progress = Append(@, ev.d)]

\* lines 321-326: the text of the completion message for a queue of n files
\* (the output directory that follows it is left out)
CompletionMessage(n) ==
    "All " \o ToString(n) \o " files have been converted successfully!"

\* main_window.py lines 312-328
_on_all_finished ==
    /\ Takes("all_finished")
    /\ oloc' = [oloc EXCEPT
                  !.is_converting = FALSE,
                  !.progress_widget.current_file_label = "All conversions completed!",
                  !.message_box = CompletionMessage(Len(oloc.file_list))]

\* main_window.py lines 330-338
_on_batch_cancelled ==
    /\ Takes("batch_cancelled")
    /\ oloc' = [oloc EXCEPT !.is_converting = FALSE,
                            !.progress_widget = reset(@)]

\* _on_start_conversion, lines 186-224: the queue's files, all pending, are
\* handed to a new BatchConversionManager
InitHost ==
    /\ CoreIdle
    /\ opc = "loop"
    /\ oin \in { [fn |-> "host", file_list |-> fl] : fl \in HostFileLists }
    /\ oret = [index |-> 0, sent |-> 0, queue |-> << >>, results |-> << >>]
    /\ oloc = [ is_converting |-> TRUE,
                file_list |-> oin.file_list,
                statuses |-> [f \in { oin.file_list[k] : k \in 1 .. Len(oin.file_list) } |-> "pending"],
                progress_widget |-> NewProgressWidget,
                message_box |-> "",
                job_progress |-> << >> ]

NextHost ==
    \/ RunLoop
    \/ RunRaise
    \/ RunProgress
    \/ RunResult
    \/ _on_file_started
    \/ _on_file_finished
    \/ _on_file_failed
    \/ _on_progress_updated
    \/ _on_all_finished
    \/ _on_batch_cancelled

SpecHost == InitHost /\ [][NextHost]_vars

\* --------------------------------------------------------------- C37
HostState == oin # NoCall /\ oin.fn = "host"
\* the host has handled file_started and not yet what ended that job
InJob == Take(oloc.progress_widget.current_file_label, 11) = "Converting:"
WithBitrate == { k \in 1 .. Len(oloc.job_progress) : "bitrate_mbps" \in DOMAIN oloc.job_progress[k] }
LastBitrate == oloc.job_progress[CHOOSE k \in WithBitrate : \A i \in WithBitrate : i <= k].bitrate_mbps
Shown(x) == IF x = <<2400000, 1000000>> THEN "2.4 Mbps" ELSE "5.1 Mbps"
ShowsBitrate ==
    LET t == oloc.progress_widget.speed_label
    IN  Len(t) >= 4 /\ SubSeq(t, Len(t) - 3, Len(t)) = "Mbps"

\* C37: during a job, once a progress record with bitrate_mbps has been
\* handled, the throughput shown is the latest such value of this job,
\* whatever the records after it carry; before that no bitrate is shown and
\* none is remembered, what an earlier job left having been cleared by
\* start_conversion; outside a job no throughput is shown, and after a reset
\* none is remembered.
C37_StickyBitrate ==
    HostState =>
        /\ (InJob /\ WithBitrate # {}) =>
              /\ oloc.progress_widget.speed_label = Shown(LastBitrate)
              /\ oloc.progress_widget.last_bitrate_mbps = LastBitrate
        /\ (InJob /\ WithBitrate = {}) =>
              /\ ~ShowsBitrate
              /\ oloc.progress_widget.last_bitrate_mbps = << >>
        /\ ~InJob => oloc.progress_widget.speed_label = ""
        /\ oloc.progress_widget.current_file_label = "Ready" =>
              oloc.progress_widget.last_bitrate_mbps = << >>

\* C37's case: in the second job a bitrate was handled and then a record
\* without one; the bitrate is still shown.
C37_Witness ==
    /\ HostState
    /\ oloc.progress_widget.current_file_label = "Converting: b.mp4"
    /\ oloc.job_progress = << [bitrate_mbps |-> <<2400000, 1000000>>], [speed |-> <<1500, 1000>>] >>
    /\ oloc.progress_widget.speed_label = "2.4 Mbps"

\* --------------------------------------------------------------- C38
\* C38 as claimed: when the host has shown that all files were converted
\* successfully, every job of the batch emitted file_finished and none
\* file_failed.
C38_Original ==
    (HostState /\ oloc.message_box = CompletionMessage(Len(oin.file_list))) =>
        /\ Len(oret.results) = Len(oin.file_list)
        /\ \A k \in 1 .. Len(oret.results) : oret.results[k] = "file_finished"

\* --------------------------------------------------------------- C39
\* the step is the host handling file_finished
HandlesFinished ==
    /\ HostState /\ oret.queue # << >> /\ Head(oret.queue).e = "file_finished"
    /\ oret'.queue = Tail(oret.queue)

\* C39 as claimed: handling file_finished for index i sets the status of the
\* i-th input file to completed and changes no other file's status.
C39_Original ==
    [][HandlesFinished =>
          LET converted == oin.file_list[Head(oret.queue).i + 1] IN
          /\ oloc'.statuses[converted] = "completed"
          /\ \A f \in DOMAIN oloc.statuses :
                f # converted => oloc'.statuses[f] = oloc.statuses[f]]_vars

\* What does hold: the same for the first file of the queue.
C39_FirstFile ==
    [][(HandlesFinished /\ Head(oret.queue).i = 0) =>
          LET converted == oin.file_list[1] IN
          /\ oloc'.statuses[converted] = "completed"
          /\ \A f \in DOMAIN oloc.statuses :
                f # converted => oloc'.statuses[f] = oloc.statuses[f]]_vars
====
